---------------------------- MODULE Spec2Model ----------------------------
(***************************************************************************)
(* A model of v8_valueserializer: the deserializer (src/src/de.rs), the    *)
(* serializer (src/src/ser.rs), the value/heap model (src/src/value.rs)    *)
(* and the printer (src/src/display.rs).                                   *)
(*                                                                         *)
(* Each of the three entry points (ValueDeserializer::read,                *)
(* ValueSerializer::finish, display) is a recursive Rust function.  It is  *)
(* modelled as a machine with an explicit call stack: one step runs the    *)
(* code of one activation up to its next recursive call or its return.     *)
(***************************************************************************)
EXTENDS Integers, Sequences, FiniteSets, TLC

VARIABLES
  de,    \* the activation of ValueDeserializer::read: Input, HeapBuilder, ValueDeserializer
  ser,   \* the activation of ValueSerializer::finish: ValueSerializer and its arguments
  dis,   \* the activation of display: Displayer, DependencyInfo and its arguments
  heap_builder,  \* a HeapBuilder used on its own, and the calls made on it
  call   \* a call of a function that keeps no state: its arguments and its result

vars == <<de, ser, dis, heap_builder, call>>

(***************************************************************************)
(* Option<T>                                                               *)
(***************************************************************************)
None == [some |-> FALSE]
Some(v) == [some |-> TRUE, v |-> v]

Last(s) == s[Len(s)]
Front(s) == SubSeq(s, 1, Len(s) - 1)
\* A function on 1..n as a sequence value (a Vec built element by element).
Vec(f) == f \o <<>>

RECURSIVE Pow2(_)
Pow2(n) == IF n = 0 THEN 1 ELSE 2 * Pow2(n - 1)

(***************************************************************************)
(* src/src/tags.rs: SerializationTag                                       *)
(***************************************************************************)
TagVersion == 255
TagPadding == 0
TagVerifyObjectCount == 63
TagTheHole == 45
TagUndefined == 95
TagNull == 48
TagTrue == 84
TagFalse == 70
TagInt32 == 73
TagUint32 == 85
TagDouble == 78
TagBigInt == 90
TagUtf8String == 83
TagOneByteString == 34
TagTwoByteString == 99
TagObjectReference == 94
TagBeginJsObject == 111
TagEndJsObject == 123
TagBeginSparseJsArray == 97
TagEndSparseJsArray == 64
TagBeginDenseJsArray == 65
TagEndDenseJsArray == 36
TagDate == 68
TagTrueObject == 121
TagFalseObject == 120
TagNumberObject == 110
TagBigIntObject == 122
TagStringObject == 115
TagRegExp == 82
TagBeginJsMap == 59
TagEndJsMap == 58
TagBeginJsSet == 39
TagEndJsSet == 44
TagArrayBuffer == 66
TagResizableArrayBuffer == 126
TagArrayBufferTransfer == 116
TagArrayBufferView == 86
TagSharedArrayBuffer == 117
TagSharedObject == 112
TagWasmModuleTransfer == 119
TagHostObject == 92
TagWasmMemoryTransfer == 109
TagError == 114

(***************************************************************************)
(* src/src/tags.rs: ArrayBufferViewTag, with the element width of each     *)
(* kind (ArrayBufferViewKind::byte_width, src/src/value.rs).               *)
(***************************************************************************)
ViewKinds ==
  << [tag |-> 98,  kind |-> "Int8Array",         width |-> 1],
     [tag |-> 66,  kind |-> "Uint8Array",        width |-> 1],
     [tag |-> 67,  kind |-> "Uint8ClampedArray", width |-> 1],
     [tag |-> 119, kind |-> "Int16Array",        width |-> 2],
     [tag |-> 87,  kind |-> "Uint16Array",       width |-> 2],
     [tag |-> 100, kind |-> "Int32Array",        width |-> 4],
     [tag |-> 68,  kind |-> "Uint32Array",       width |-> 4],
     [tag |-> 102, kind |-> "Float32Array",      width |-> 4],
     [tag |-> 70,  kind |-> "Float64Array",      width |-> 8],
     [tag |-> 113, kind |-> "BigInt64Array",     width |-> 8],
     [tag |-> 81,  kind |-> "BigUint64Array",    width |-> 8],
     [tag |-> 63,  kind |-> "DataView",          width |-> 1] >>

byte_width(kind) ==
  ViewKinds[CHOOSE i \in 1..Len(ViewKinds) : ViewKinds[i].kind = kind].width

(***************************************************************************)
(* src/src/tags.rs: ErrorTag                                               *)
(***************************************************************************)
ErrEvalErrorPrototype == 69
ErrRangeErrorPrototype == 82
ErrReferenceErrorPrototype == 70
ErrSyntaxErrorPrototype == 83
ErrTypeErrorPrototype == 84
ErrUriErrorPrototype == 85
ErrMessage == 109
ErrCause == 99
ErrStack == 115
ErrEnd == 46

(***************************************************************************)
(* Program constants of the deserializer and the serializer.               *)
(***************************************************************************)
MINIMUM_WIRE_FORMAT_VERSION == 14
MAXIMUM_WIRE_FORMAT_VERSION == 15
WIRE_FORMAT_VERSION == 15
RECURSION_DEPTH_LIMIT == 256
SER_RECURSION_DEPTH_LIMIT == 256

(***************************************************************************)
(* Integers.  TLC's integers are 32-bit signed, so a u32 is modelled as a  *)
(* natural number below 2^31.  A varint that decodes to a larger value     *)
(* (its fifth byte carries bit 31) ends the run with the outcome           *)
(* "Unmodelled": such inputs are outside the model.                        *)
(***************************************************************************)

(***************************************************************************)
(* Results of the fallible Input methods: Ok(value) with the new cursor,   *)
(* or Err(ParseError{position, kind}) with the cursor where it was raised. *)
(* A panic is an Err of a PanicKind.                                       *)
(***************************************************************************)
Ok(v, pos) == [ok |-> TRUE, value |-> v, position |-> pos]
Err(kind, info, at, pos) ==
  [ok |-> FALSE, kind |-> kind, info |-> info, at |-> at, position |-> pos]
PanicKinds ==
  {"PanicPositionUnderflow", "PanicAlreadyPopulated", "PanicIndexOutOfBounds",
   "PanicShiftOverflow"}

\* The ? operator: r is the result of the call, K the code that follows it.
Bind(r, K(_)) == IF r.ok THEN K(r) ELSE r

\* let x = ...; K: x is computed once, then K goes on with its value
With(x, K(_)) == CHOOSE r \in {K(v) : v \in {x}} : TRUE

\* r.map(Wrap)
MapOk(r, Wrap(_)) == IF r.ok THEN Ok(Wrap(r.value), r.position) ELSE r

\* Input::err_current (de.rs 800-805): the error is at the cursor.
err_current(position, kind, info) == Err(kind, info, position, position)

\* Input::err (de.rs 808-813): the error is at position - 1, a usize subtraction.
err(position, kind, info) ==
  IF position = 0 THEN Err("PanicPositionUnderflow", <<>>, 0, position)
  ELSE Err(kind, info, position - 1, position)

\* Input::skip_padding (de.rs 833-839): the cursor after the run of Padding bytes.
\* skip_padding that skips nothing
skip_padding_none(bytes, position) == position

RECURSIVE skip_padding(_, _)
skip_padding(bytes, position) ==
  IF position < Len(bytes) /\ bytes[position + 1] = TagPadding
  THEN skip_padding(bytes, position + 1)
  ELSE position

\* Input::read_byte (de.rs 841-848)
read_byte(bytes, position) ==
  IF position < Len(bytes)
  THEN Ok(bytes[position + 1], position + 1)
  ELSE err_current(position, "UnexpectedEof", <<>>)

\* Input::read_bytes (de.rs 850-857)
read_bytes(bytes, position, len) ==
  IF len <= Len(bytes) - position
  THEN Ok(SubSeq(bytes, position + 1, position + len), position + len)
  ELSE err_current(position, "UnexpectedEof", <<>>)

\* Input::ensure_minimum_available (de.rs 822-831)
ensure_minimum_available(bytes, position, n) ==
  IF Len(bytes) - position < n
  THEN err_current(position, "ExpectedMinimumBytes", <<n, Len(bytes) - position>>)
  ELSE Ok(TRUE, position)

\* Input::expect_eof (de.rs 815-820)
expect_eof(bytes, position) ==
  IF Len(bytes) < position
  THEN err_current(position, "ExpectedEof", <<>>)
  ELSE Ok(TRUE, position)

\* Input::expect_tag (de.rs 868-875)
expect_tag(bytes, position, tag) ==
  Bind(read_byte(bytes, skip_padding(bytes, position)), LAMBDA b :
    IF b.value # tag THEN err(b.position, "ExpectedTag", <<tag, b.value>>)
    ELSE Ok(TRUE, b.position))

\* Input::maybe_read_tag (de.rs 877-886): the padding is consumed even when the
\* tag is not there.
maybe_read_tag(bytes, position, tag) ==
  With(skip_padding(bytes, position), LAMBDA p :
    IF p < Len(bytes) /\ bytes[p + 1] = tag
    THEN [found |-> TRUE, position |-> p + 1]
    ELSE [found |-> FALSE, position |-> p])

\* A u32 is kept as its two 16-bit halves, so that all 32 bits are there.
U32Zero == [hi |-> 0, lo |-> 0]
\* a | b on the bits of two halves
RECURSIVE BitOr(_, _)
BitOr(a, b) ==
  IF a = 0 THEN b
  ELSE IF b = 0 THEN a
  ELSE 2 * BitOr(a \div 2, b \div 2) + (IF a % 2 = 1 \/ b % 2 = 1 THEN 1 ELSE 0)
\* (x as u32) << shift for a byte x: the bits that leave the 32 are lost
ShiftLeftU32(x, shift) ==
  IF shift < 16
  THEN [hi |-> ((x * Pow2(shift)) \div 65536) % 65536, lo |-> (x * Pow2(shift)) % 65536]
  ELSE [hi |-> (x * Pow2(shift - 16)) % 65536, lo |-> 0]
BitOrU32(a, b) == [hi |-> BitOr(a.hi, b.hi), lo |-> BitOr(a.lo, b.lo)]

\* read_varint_loop going on for as long as the continuation bit is set
RECURSIVE read_varint_loop_unbounded(_, _, _, _)
read_varint_loop_unbounded(bytes, position, value, i) ==
  Bind(read_byte(bytes, position), LAMBDA b :
    IF 7 * i >= 32 THEN Err("PanicShiftOverflow", <<7 * i>>, b.position, b.position)
    ELSE With(BitOrU32(value, ShiftLeftU32(b.value % 128, 7 * i)), LAMBDA v :
           IF b.value < 128 THEN Ok(v, b.position)
           ELSE read_varint_loop_unbounded(bytes, b.position, v, i + 1)))

\* Input::read_varint (de.rs 888-900), the loop from iteration i on, value being
\* the u32 accumulated so far.  A shift of a u32 by 32 bits or more is an
\* arithmetic overflow, a panic.
RECURSIVE read_varint_loop(_, _, _, _)
read_varint_loop(bytes, position, value, i) ==
  Bind(read_byte(bytes, position), LAMBDA b :
    IF 7 * i >= 32 THEN Err("PanicShiftOverflow", <<7 * i>>, b.position, b.position)
    ELSE With(BitOrU32(value, ShiftLeftU32(b.value % 128, 7 * i)), LAMBDA v :
           IF b.value < 128 \/ i + 1 > 4 THEN Ok(v, b.position)
           ELSE read_varint_loop(bytes, b.position, v, i + 1)))

\* Input::read_varint (de.rs 888-900).  The u32 read is used as an integer
\* from here on; one of 2^31 or more is beyond the integers of the model.
read_varint(bytes, position) ==
  Bind(read_varint_loop(bytes, position, U32Zero, 0), LAMBDA r :
    IF r.value.hi >= 32768 THEN Err("Unmodelled", <<>>, r.position, r.position)
    ELSE Ok(r.value.hi * 65536 + r.value.lo, r.position))

\* Input::read_varint_u8 (de.rs 902-914): at most two bytes; the shift is on a
\* u8, which keeps of the second byte its lowest bit.  A shift of a u8 by 8
\* bits or more is an arithmetic overflow, a panic.
RECURSIVE read_varint_u8_loop(_, _, _, _)
read_varint_u8_loop(bytes, position, value, i) ==
  Bind(read_byte(bytes, position), LAMBDA b :
    IF 7 * i >= 8 THEN Err("PanicShiftOverflow", <<7 * i>>, b.position, b.position)
    ELSE With(BitOr(value, ((b.value % 128) * Pow2(7 * i)) % 256), LAMBDA v :
           IF b.value < 128 \/ i + 1 > 1 THEN Ok(v, b.position)
           ELSE read_varint_u8_loop(bytes, b.position, v, i + 1)))

read_varint_u8(bytes, position) == read_varint_u8_loop(bytes, position, 0, 0)

\* (unsigned >> 1) as i32 ^ -((unsigned & 1) as i32)
zigzag(u) == IF u % 2 = 0 THEN u \div 2 ELSE -(u \div 2) - 1

\* Input::read_zigzag (de.rs 916-919)
read_zigzag(bytes, position) == MapOk(read_varint(bytes, position), zigzag)

\* Input::read_double (de.rs 921-924): an f64 is kept as its eight little-endian bytes.
read_double(bytes, position) == read_bytes(bytes, position, 8)

(***************************************************************************)
(* src/src/value.rs: Value, StringValue, HeapValue.  A value is a record   *)
(* tagged by t; an f64 is its eight little-endian bytes.                   *)
(***************************************************************************)
Undefined == [t |-> "Undefined"]
Null == [t |-> "Null"]
Bool(b) == [t |-> "Bool", v |-> b]
I32(n) == [t |-> "I32", v |-> n]
U32(n) == [t |-> "U32", v |-> n]
Double(bits) == [t |-> "Double", v |-> bits]
BigIntValue(n) == [t |-> "BigInt", v |-> n]
String(s) == [t |-> "String", v |-> s]
HeapReference(index) == [t |-> "HeapReference", index |-> index]
BooleanObject(b) == [t |-> "BooleanObject", v |-> b]
NumberObject(bits) == [t |-> "NumberObject", v |-> bits]
BigIntObject(n) == [t |-> "BigIntObject", v |-> n]
StringObject(s) == [t |-> "StringObject", v |-> s]

Bit(n, k) == (n \div Pow2(k)) % 2

\* the bytes of s without its trailing zero bytes
RECURSIVE StripZeros(_)
StripZeros(s) ==
  IF s # <<>> /\ Last(s) = 0 THEN StripZeros(Front(s)) ELSE s

\* BigInt::from_bytes_le(sign, bytes): sign and magnitude; zero has no sign.
from_bytes_le(sign, bytes) ==
  With(StripZeros(bytes), LAMBDA mag :
    [sign |-> IF mag = <<>> THEN "NoSign" ELSE sign, mag |-> mag])

\* read_bigint (de.rs 327-338) on the bitfield kept as its two 16-bit halves:
\* bitfield & BIGINT_SIGN_BIT_MASK
bigint_sign(bitfield) == IF bitfield.lo % 2 = 0 THEN "Plus" ELSE "Minus"

\* (bitfield & BIGINT_BYTE_LENGTH_MASK) >> 1, the mask being 0x7FFFFFFE
bigint_byte_length(bitfield) ==
  [hi |-> (bitfield.hi % 32768) \div 2,
   lo |-> (bitfield.lo \div 2) + (bitfield.hi % 2) * 32768]

\* read_bigint (de.rs 326-341)
read_bigint(bytes, position) ==
  Bind(read_varint_loop(bytes, position, U32Zero, 0), LAMBDA bitfield :
    With(bigint_byte_length(bitfield.value), LAMBDA byte_length :
      Bind(read_bytes(bytes, bitfield.position, byte_length.hi * 65536 + byte_length.lo),
           LAMBDA digits :
        Ok(from_bytes_le(bigint_sign(bitfield.value), digits.value), digits.position))))

\* read_utf8_string (de.rs 343-348)
read_utf8_string(bytes, position) ==
  Bind(read_varint(bytes, position), LAMBDA byte_length :
    Bind(read_bytes(bytes, byte_length.position, byte_length.value), LAMBDA data :
      Ok([enc |-> "Wtf8", data |-> data.value], data.position)))

\* read_one_byte_string (de.rs 350-357)
read_one_byte_string(bytes, position) ==
  Bind(read_varint(bytes, position), LAMBDA byte_length :
    Bind(read_bytes(bytes, byte_length.position, byte_length.value), LAMBDA data :
      Ok([enc |-> "OneByte", data |-> data.value], data.position)))

\* read_two_byte_string (de.rs 359-381): the bytes are copied into u16 code
\* units in host byte order (little-endian here).
read_two_byte_string(bytes, position) ==
  Bind(read_varint(bytes, position), LAMBDA byte_length :
    IF byte_length.value % 2 # 0
    THEN err(byte_length.position, "InvalidLengthTwoByteString", <<>>)
    ELSE Bind(read_bytes(bytes, byte_length.position, byte_length.value), LAMBDA data :
           Ok([enc |-> "TwoByte",
               data |-> Vec([i \in 1..(byte_length.value \div 2) |->
                           data.value[2 * i - 1] + 256 * data.value[2 * i]])],
              data.position)))

(***************************************************************************)
(* f64 on its bit pattern b (eight little-endian bytes).                   *)
(***************************************************************************)
F64Exponent(b) == (b[8] % 128) * 16 + (b[7] \div 16)
F64MantissaZero(b) == b[7] % 16 = 0 /\ \A i \in 1..6 : b[i] = 0
F64IsNaN(b) == F64Exponent(b) = 2047 /\ ~F64MantissaZero(b)
F64IsZero(b) == F64Exponent(b) = 0 /\ F64MantissaZero(b)
F64Abs(b) == [b EXCEPT ![8] = b[8] % 128]
F64NaN == <<0, 0, 0, 0, 0, 0, 248, 127>>
F64Zero == <<0, 0, 0, 0, 0, 0, 0, 0>>

\* a <= b for two non-negative, non-NaN patterns: the order of the patterns
\* read as integers, compared from the most significant byte down.
RECURSIVE F64AbsLeqFrom(_, _, _)
F64AbsLeqFrom(a, b, i) ==
  IF i = 0 THEN TRUE
  ELSE IF a[i] # b[i] THEN a[i] < b[i]
  ELSE F64AbsLeqFrom(a, b, i - 1)

\* MAX_TIME_IN_MS (value.rs 690): 8.64e15 as an f64
MAX_TIME_IN_MS == <<0, 0, 220, 194, 8, 178, 62, 67>>

\* b with its k lowest bits cleared
F64ClearLowBits(b, k) ==
  Vec([i \in 1..8 |->
     IF 8 * i <= k THEN 0
     ELSE IF 8 * (i - 1) >= k THEN b[i]
     ELSE b[i] - (b[i] % Pow2(k - 8 * (i - 1)))])

\* double_to_integer (value.rs 677-686), on a finite argument within the Date range
double_to_integer(b) ==
  IF F64IsNaN(b) \/ F64IsZero(b) THEN b
  ELSE IF F64Exponent(b) < 1023 THEN F64Zero
  ELSE IF F64Exponent(b) - 1023 >= 52 THEN b
  ELSE F64ClearLowBits(b, 52 - (F64Exponent(b) - 1023))

\* Date::new (value.rs 688-700)
Date_new(time_since_epoch) ==
  IF ~F64IsNaN(time_since_epoch) /\ F64AbsLeqFrom(F64Abs(time_since_epoch), MAX_TIME_IN_MS, 8)
  THEN [t |-> "Date", time_since_epoch |-> double_to_integer(time_since_epoch)]
  ELSE [t |-> "Date", time_since_epoch |-> F64NaN]

\* read_date (de.rs 525-528)
read_date(bytes, position) == MapOk(read_double(bytes, position), Date_new)

\* RegExpFlags (value.rs 617-631): the bit of each flag
LINEAR == 6
UNICODE == 4
UNICODE_SETS == 8
RegExpFlagBits == 9

\* accepted_flags with no look at LINEAR
accepted_flags_linear(flags) ==
  IF flags >= Pow2(RegExpFlagBits)
     \/ (Bit(flags, UNICODE) = 1 /\ Bit(flags, UNICODE_SETS) = 1)
  THEN None ELSE Some(flags)

\* the flags read_regexp accepts (de.rs 535-545): from_bits has none for a
\* bit that is no flag, and LINEAR, and UNICODE with UNICODE_SETS, are refused
accepted_flags(flags) ==
  IF flags >= Pow2(RegExpFlagBits)
     \/ Bit(flags, LINEAR) = 1
     \/ (Bit(flags, UNICODE) = 1 /\ Bit(flags, UNICODE_SETS) = 1)
  THEN None ELSE Some(flags)

\* read_js_array_buffer (de.rs 603-636).  alloc_aligned_u8_slice allocates
\* byte_length zeroed bytes and the input bytes are copied over them; for
\* byte_length = 0 the allocators in use return a valid empty block.
read_js_array_buffer(bytes, position, is_resizable) ==
  Bind(read_varint(bytes, position), LAMBDA byte_length :
    Bind(IF is_resizable THEN read_varint(bytes, byte_length.position)
         ELSE Ok(0, byte_length.position), LAMBDA max_byte_length_value :
      IF is_resizable /\ max_byte_length_value.value < byte_length.value
      THEN err(max_byte_length_value.position, "InvalidResizableArrayBufferMaxLength",
               <<byte_length.value, max_byte_length_value.value>>)
      ELSE Bind(read_bytes(bytes, max_byte_length_value.position, byte_length.value),
                LAMBDA data :
             Ok([t |-> "ArrayBuffer", data |-> data.value,
                 max_byte_length |-> IF is_resizable
                                     THEN Some(max_byte_length_value.value) ELSE None],
                data.position))))

\* read_js_array_buffer_view (de.rs 648-728), the four fields read: tag,
\* byte_offset, byte_length, flags, the cursor at position
ArrayBufferView_checked(tag, byte_offset, byte_length, flags, position,
                        buffer_byte_length, buffer) ==
  With({i \in 1..Len(ViewKinds) : ViewKinds[i].tag = tag}, LAMBDA known :
    IF byte_offset > buffer_byte_length
    THEN err(position, "InvalidArrayBufferViewOffset", <<byte_offset, buffer_byte_length>>)
    ELSE IF byte_length > buffer_byte_length - byte_offset
    THEN err(position, "InvalidArrayBufferViewLength",
             <<byte_length, byte_offset, buffer_byte_length>>)
    ELSE IF known = {} THEN err(position, "InvalidArrayBufferViewTag", <<tag>>)
    ELSE With(ViewKinds[CHOOSE i \in known : TRUE], LAMBDA k :
      IF byte_offset % k.width # 0
      THEN err(position, "UnalignedArrayBufferViewOffset", <<byte_offset, k.width>>)
      ELSE IF byte_length % k.width # 0
      THEN err(position, "UnalignedArrayBufferViewLength", <<byte_length, k.width>>)
      ELSE Ok([t |-> "ArrayBufferView", kind |-> k.kind, buffer |-> buffer,
               byte_offset |-> byte_offset, length |-> byte_length \div k.width,
               is_length_tracking |-> flags % 2 # 0,
               is_backed_by_rab |-> Bit(flags, 1) # 0],
              position)))

\* read_js_array_buffer_view taking the buffer to be as long as the view asks
read_js_array_buffer_view_unbounded(bytes, position, buffer_byte_length, buffer) ==
  Bind(read_varint_u8(bytes, position), LAMBDA tag :
    Bind(read_varint(bytes, tag.position), LAMBDA byte_offset :
      Bind(read_varint(bytes, byte_offset.position), LAMBDA byte_length :
        Bind(read_varint(bytes, byte_length.position), LAMBDA flags :
          ArrayBufferView_checked(tag.value, byte_offset.value, byte_length.value,
                                  flags.value, flags.position,
                                  byte_offset.value + byte_length.value, buffer)))))

\* read_js_array_buffer_view (de.rs 638-729)
read_js_array_buffer_view(bytes, position, buffer_byte_length, buffer) ==
  Bind(read_varint_u8(bytes, position), LAMBDA tag :
    Bind(read_varint(bytes, tag.position), LAMBDA byte_offset :
      Bind(read_varint(bytes, byte_offset.position), LAMBDA byte_length :
        Bind(read_varint(bytes, byte_length.position), LAMBDA flags :
          ArrayBufferView_checked(tag.value, byte_offset.value, byte_length.value,
                                  flags.value, flags.position,
                                  buffer_byte_length, buffer)))))

(***************************************************************************)
(* The deserializer as a machine.  d is the record                         *)
(*   bytes, position     Input                                             *)
(*   values              HeapBuilder.values, a slot is None while reserved *)
(*   recursion_depth     ValueDeserializer.recursion_depth                 *)
(*   transfer_map        ValueDeserializer.transfer_map                    *)
(*   stack               the live activations below the running one: the   *)
(*                       bottom frame is read, every other frame is one    *)
(*                       read_object with the callee it is in              *)
(*   pc                  "new" before read, "call" at the entry of         *)
(*                       read_object, "loop" at the head of the loop of    *)
(*                       the callee on top, "tail" where                   *)
(*                       read_object_internal has returned Ok(ret) to      *)
(*                       read_object, "resume" where read_object has       *)
(*                       returned Ok(ret) to the frame on top, "string" at *)
(*                       the entry of read_string_value, "string_return"   *)
(*                       where it has returned Ok(ret), "done"             *)
(*   ret                 the value returned                                *)
(*   result              the result of read                                *)
(*   expect, given,      history: where a tag has been looked for, the     *)
(*   steps               transfer_map read started with, and the number of *)
(*                       steps taken                                       *)
(* A ? that propagates an error unwinds every frame without another        *)
(* effect on the result, so an error ends the run at once.                 *)
(***************************************************************************)
Top(d) == Last(d.stack)
Pop(d) == [d EXCEPT !.stack = Front(@)]
Push(d, f) == [d EXCEPT !.stack = Append(@, f)]
SetTop(d, f) == [d EXCEPT !.stack = [@ EXCEPT ![Len(@)] = f]]
At(d, pos) == [d EXCEPT !.position = pos]
Goto(d, pc) == [d EXCEPT !.pc = pc]
Tick(d) == [d EXCEPT !.steps = @ + 1]
Return(d, value) == [d EXCEPT !.pc = "tail", !.ret = value]

\* History: the cursor positions at which a tag has been looked for, each with
\* what was looked for there: a SerializationTag ("tag", after skip_padding),
\* an ErrorTag ("error_tag") or an ArrayBufferViewTag ("view_tag"), the last
\* two read as a varint.  The place where read_object_internal or
\* read_string_value looks for the tag of a value is a "value" too.
Expect(d, pos, class) == [d EXCEPT !.expect = @ \cup {<<pos, class>>}]

Fail(d, e) ==
  [d EXCEPT !.pc = "done", !.position = e.position,
            !.result = [t |-> "Err", kind |-> e.kind, info |-> e.info, position |-> e.at]]

\* r? in the machine: K goes on with the cursor after r and with r.
Try(d, r, K(_, _)) == IF r.ok THEN K(At(d, r.position), r) ELSE Fail(d, r)

\* K goes on with d unless d has ended
Then(d, K(_)) == IF d.pc = "done" THEN d ELSE K(d)

\* HeapBuilder::reserve (value.rs 1063-1070): the builder after the push; the
\* reference returned is the index Len(d.values).
reserve(d) == [d EXCEPT !.values = Append(@, None)]

\* insert_reserved filling no slot
insert_reserved_unfilled(d, index, heap_value) == d

\* HeapBuilder::insert_reserved (value.rs 1072-1083): Option::replace stores
\* the value and gives back what the slot held; the assertion on what it held
\* comes after.
insert_reserved(d, index, heap_value) ==
  IF index >= Len(d.values)
  THEN Fail(d, Err("PanicIndexOutOfBounds", <<index>>, d.position, d.position))
  ELSE IF d.values[index + 1].some
  THEN Fail([d EXCEPT !.values[index + 1] = Some(heap_value)],
            Err("PanicAlreadyPopulated", <<index>>, d.position, d.position))
  ELSE [d EXCEPT !.values[index + 1] = Some(heap_value)]

\* HeapBuilder::insert (value.rs 1085-1089)
insert(d, heap_value) == insert_reserved(reserve(d), Len(d.values), heap_value)

\* reference_by_id without its test of the index
reference_by_id_unchecked(d, id) == Some(id)

\* reference_by_id resolving the populated slots only
reference_by_id_populated(d, id) ==
  IF id < Len(d.values) /\ d.values[id + 1].some THEN Some(id) ELSE None

\* HeapBuilder::reference_by_id (value.rs 1097-1106)
reference_by_id(d, id) ==
  IF Len(d.values) <= id THEN None ELSE Some(id)

\* HeapBuilder::try_open (value.rs 1091-1095)
try_open(d, index) ==
  IF index >= Len(d.values)
  THEN Err("PanicIndexOutOfBounds", <<index>>, d.position, d.position)
  ELSE Ok(d.values[index + 1], d.position)

\* read_object (de.rs 161-181) from the return of read_object_internal with
\* Ok(ret): the depth is restored, a view that follows an ArrayBuffer is read
\* and inserted, and the value goes to the caller.
read_object_tail(d0) ==
  With([d0 EXCEPT !.recursion_depth = @ - 1, !.pc = "resume"], LAMBDA d :
    IF d.ret.t # "HeapReference" THEN d
    ELSE Try(d, try_open(d, d.ret.index), LAMBDA d1, slot :
      IF ~slot.value.some THEN d
      ELSE IF slot.value.v.t # "ArrayBuffer" THEN d
      ELSE With(maybe_read_tag(d.bytes, d.position, TagArrayBufferView), LAMBDA tag :
        IF ~tag.found THEN At(Expect(d, d.position, "tag"), tag.position)
        ELSE Try(Expect(Expect(d, d.position, "tag"), tag.position, "view_tag"),
                 read_js_array_buffer_view(d.bytes, tag.position,
                                           Len(slot.value.v.data), d.ret.index),
                 LAMBDA d2, view :
                   Then(insert(d2, view.value), LAMBDA d3 :
                     [d3 EXCEPT !.ret = HeapReference(Len(d.values))])))))

\* The end of a container: heap.insert_reserved(reference, heap_value), then
\* Ok(Value::HeapReference(reference)) leaves read_object_internal; the frame
\* of the container is on top.
Container(d, heap_value) ==
  Then(insert_reserved(Pop(d), Top(d).reference, heap_value), LAMBDA d1 :
    Return(d1, HeapReference(Top(d).reference)))

PropertiesFrame(reference, kind, end_tag, length, elements) ==
  [fn |-> "read_js_object_properties", reference |-> reference, kind |-> kind,
   end_tag |-> end_tag, length |-> length, elements |-> elements,
   properties |-> <<>>, key |-> Null, phase |-> "head"]

\* the HeapValue the caller of read_js_object_properties builds (de.rs 463,
\* 484, 518-521)
PropertiesValue(f) ==
  IF f.kind = "Object" THEN [t |-> "Object", properties |-> f.properties]
  ELSE IF f.kind = "SparseArray"
  THEN [t |-> "SparseArray", length |-> f.length, properties |-> f.properties]
  ELSE [t |-> "DenseArray", elements |-> f.elements, properties |-> f.properties]

\* the length that follows the property count of an array (de.rs 478-483,
\* 512-517)
PropertiesLength(d, f) ==
  IF f.kind = "Object" THEN Container(d, PropertiesValue(f))
  ELSE Try(d, read_varint(d.bytes, d.position), LAMBDA d1, length :
    IF length.value # f.length
    THEN Fail(d1, err(d1.position, "InvalidArrayElementsLength", <<length.value, f.length>>))
    ELSE Container(d1, PropertiesValue(f)))

\* read_js_object_properties (de.rs 430-453) from the head of its loop, and
\* the rest of its caller (read_js_object 456-464, read_sparse_js_array
\* 478-485, read_dense_js_array 512-522); the top frame holds the locals.
read_js_object_properties(d0) ==
  With(maybe_read_tag(d0.bytes, d0.position, Top(d0).end_tag), LAMBDA end :
    With(At(Expect(d0, d0.position, "tag"), end.position), LAMBDA d :
      IF ~end.found THEN Goto(SetTop(d, [Top(d) EXCEPT !.phase = "key"]), "call")
      ELSE Try(d, read_varint(d.bytes, d.position), LAMBDA d1, property_count :
        IF property_count.value # Len(Top(d).properties)
        THEN Fail(d1, err(d1.position, "InvalidPropertyCount",
                          <<property_count.value, Len(Top(d).properties)>>))
        ELSE PropertiesLength(d1, Top(d)))))

\* read_dense_js_array (de.rs 498-511) from the head of its element loop: a
\* hole is pushed or an element is read, until length elements are there, and
\* then the properties follow.
read_dense_js_array(d0) ==
  IF Len(Top(d0).elements) >= Top(d0).length
  THEN SetTop(d0, PropertiesFrame(Top(d0).reference, "DenseArray", TagEndDenseJsArray,
                                  Top(d0).length, Top(d0).elements))
  ELSE With(maybe_read_tag(d0.bytes, d0.position, TagTheHole), LAMBDA hole :
    With(At(Expect(d0, d0.position, "tag"), hole.position), LAMBDA d :
      IF hole.found THEN SetTop(d, [Top(d) EXCEPT !.elements = Append(@, None)])
      ELSE Goto(d, "call")))

\* the end of read_js_map and read_js_set (de.rs 564-574, 590-600)
EntryCount(d, actual_length, heap_value) ==
  Try(d, read_varint(d.bytes, d.position), LAMBDA d1, expected_length :
    IF expected_length.value # actual_length
    THEN Fail(d1, err(d1.position, "InvalidEntryCount",
                      <<expected_length.value, actual_length>>))
    ELSE Container(d1, heap_value))

\* read_js_map (de.rs 556-574) from the head of its loop
read_js_map(d0) ==
  With(maybe_read_tag(d0.bytes, d0.position, TagEndJsMap), LAMBDA end :
    With(At(Expect(d0, d0.position, "tag"), end.position), LAMBDA d :
      IF ~end.found THEN Goto(SetTop(d, [Top(d) EXCEPT !.phase = "key"]), "call")
      ELSE EntryCount(d, Len(Top(d).entries) * 2,
                      [t |-> "Map", entries |-> Top(d).entries])))

\* read_js_set (de.rs 584-600) from the head of its loop
read_js_set(d0) ==
  With(maybe_read_tag(d0.bytes, d0.position, TagEndJsSet), LAMBDA end :
    With(At(Expect(d0, d0.position, "tag"), end.position), LAMBDA d :
      IF ~end.found THEN Goto(d, "call")
      ELSE EntryCount(d, Len(Top(d).values), [t |-> "Set", values |-> Top(d).values])))

\* the ErrorName of a prototype sub-tag (de.rs 762-773)
ErrorNames ==
  << [tag |-> ErrEvalErrorPrototype,      name |-> "EvalError"],
     [tag |-> ErrRangeErrorPrototype,     name |-> "RangeError"],
     [tag |-> ErrReferenceErrorPrototype, name |-> "ReferenceError"],
     [tag |-> ErrSyntaxErrorPrototype,    name |-> "SyntaxError"],
     [tag |-> ErrTypeErrorPrototype,      name |-> "TypeError"],
     [tag |-> ErrUriErrorPrototype,       name |-> "UriError"] >>

\* read_js_error (de.rs 760-795) from the head of its loop, one sub-tag
read_js_error(d0) ==
  Try(Expect(d0, d0.position, "error_tag"), read_varint_u8(d0.bytes, d0.position),
      LAMBDA d, tag :
    With({i \in 1..Len(ErrorNames) : ErrorNames[i].tag = tag.value}, LAMBDA proto :
      IF proto # {}
      THEN SetTop(d, [Top(d) EXCEPT !.name = ErrorNames[CHOOSE i \in proto : TRUE].name])
      ELSE IF tag.value = ErrMessage
      THEN Goto(SetTop(d, [Top(d) EXCEPT !.field = "message"]), "string")
      ELSE IF tag.value = ErrStack
      THEN Goto(SetTop(d, [Top(d) EXCEPT !.field = "stack"]), "string")
      ELSE IF tag.value = ErrCause THEN Goto(d, "call")
      ELSE IF tag.value = ErrEnd
      THEN Container(d, [t |-> "Error", name |-> Top(d).name, message |-> Top(d).message,
                         stack |-> Top(d).stack, cause |-> Top(d).cause])
      ELSE Fail(d, err(d.position, "UnexpectedErrorTag", <<tag.value>>))))

\* read_transferred_js_array_buffer looking the buffer up and leaving it
read_transferred_js_array_buffer_kept(d0) ==
  Try(d0, read_varint(d0.bytes, d0.position), LAMBDA d, id :
    IF id.value \notin DOMAIN d.transfer_map
    THEN Fail(d, err(d.position, "MissingTransferredArrayBuffer", <<id.value>>))
    ELSE Then(insert(d, d.transfer_map[id.value]), LAMBDA d1 :
           Return(d1, HeapReference(Len(d.values)))))

\* read_transferred_js_array_buffer (de.rs 740-749): transfer_map.remove(id)
read_transferred_js_array_buffer(d0) ==
  Try(d0, read_varint(d0.bytes, d0.position), LAMBDA d, id :
    IF id.value \notin DOMAIN d.transfer_map
    THEN Fail(d, err(d.position, "MissingTransferredArrayBuffer", <<id.value>>))
    ELSE Then(insert([d EXCEPT !.transfer_map = [i \in DOMAIN @ \ {id.value} |-> @[i]]],
                     d.transfer_map[id.value]), LAMBDA d1 :
           Return(d1, HeapReference(Len(d.values)))))

\* read_object_reference (de.rs 413-421)
read_object_reference(d0) ==
  Try(d0, read_varint(d0.bytes, d0.position), LAMBDA d, index :
    IF ~reference_by_id(d, index.value).some
    THEN Fail(d, err(d.position, "InvalidObjectReference", <<index.value>>))
    ELSE Return(d, HeapReference(reference_by_id(d, index.value).v)))

\* the tags read_object_internal refuses by name (de.rs 305-320)
Unsupported ==
  << [tag |-> TagSharedArrayBuffer,  kind |-> "SharedArrayBufferNotSupported"],
     [tag |-> TagWasmModuleTransfer, kind |-> "WasmModuleTransferNotSupported"],
     [tag |-> TagWasmMemoryTransfer, kind |-> "SharedArrayBufferNotSupported"],
     [tag |-> TagHostObject,         kind |-> "HostObjectNotSupported"],
     [tag |-> TagSharedObject,       kind |-> "SharedObjectNotSupported"] >>

\* the arms of read_object_internal that read a Value (de.rs 196-231)
ReadValue(bytes, p, tag) ==
  IF tag = TagUndefined THEN Ok(Undefined, p)
  ELSE IF tag = TagNull THEN Ok(Null, p)
  ELSE IF tag = TagTrue THEN Ok(Bool(TRUE), p)
  ELSE IF tag = TagFalse THEN Ok(Bool(FALSE), p)
  ELSE IF tag = TagInt32 THEN MapOk(read_zigzag(bytes, p), I32)
  ELSE IF tag = TagUint32 THEN MapOk(read_varint(bytes, p), U32)
  ELSE IF tag = TagDouble THEN MapOk(read_double(bytes, p), Double)
  ELSE IF tag = TagBigInt THEN MapOk(read_bigint(bytes, p), BigIntValue)
  ELSE IF tag = TagUtf8String THEN MapOk(read_utf8_string(bytes, p), String)
  ELSE IF tag = TagOneByteString THEN MapOk(read_one_byte_string(bytes, p), String)
  ELSE MapOk(read_two_byte_string(bytes, p), String)

\* the arms that read a HeapValue without children (de.rs 236-298)
ReadHeapValue(bytes, p, tag) ==
  IF tag = TagDate THEN read_date(bytes, p)
  ELSE IF tag = TagTrueObject THEN Ok(BooleanObject(TRUE), p)
  ELSE IF tag = TagFalseObject THEN Ok(BooleanObject(FALSE), p)
  ELSE IF tag = TagNumberObject THEN MapOk(read_double(bytes, p), NumberObject)
  ELSE IF tag = TagBigIntObject THEN MapOk(read_bigint(bytes, p), BigIntObject)
  ELSE read_js_array_buffer(bytes, p, tag = TagResizableArrayBuffer)

\* the arms that read a container up to the head of its loop: heap.reserve()
\* and the locals of the callee (de.rs 240-262, 466-470, 488-497, 549-555,
\* 577-583, 751-759)
ReadContainer(d, tag) ==
  IF tag = TagBeginJsObject
  THEN Push(d, PropertiesFrame(Len(d.values) - 1, "Object", TagEndJsObject, 0, <<>>))
  ELSE IF tag = TagBeginSparseJsArray
  THEN Try(d, read_varint(d.bytes, d.position), LAMBDA d1, length :
         Push(d1, PropertiesFrame(Len(d.values) - 1, "SparseArray", TagEndSparseJsArray,
                                  length.value, <<>>)))
  ELSE IF tag = TagBeginDenseJsArray
  THEN Try(d, read_varint(d.bytes, d.position), LAMBDA d1, length :
         Try(d1, ensure_minimum_available(d1.bytes, d1.position, length.value),
             LAMBDA d2, available :
           Push(d2, [fn |-> "read_dense_js_array", reference |-> Len(d.values) - 1,
                     length |-> length.value, elements |-> <<>>])))
  ELSE IF tag = TagBeginJsMap
  THEN Push(d, [fn |-> "read_js_map", reference |-> Len(d.values) - 1, entries |-> <<>>,
                key |-> Null, phase |-> "head"])
  ELSE IF tag = TagBeginJsSet
  THEN Push(d, [fn |-> "read_js_set", reference |-> Len(d.values) - 1, values |-> <<>>])
  ELSE Push(d, [fn |-> "read_js_error", reference |-> Len(d.values) - 1, name |-> "Error",
                message |-> None, cause |-> None, stack |-> None, field |-> "none"])

ValueTags ==
  {TagUndefined, TagNull, TagTrue, TagFalse, TagInt32, TagUint32, TagDouble, TagBigInt,
   TagUtf8String, TagOneByteString, TagTwoByteString}
HeapValueTags ==
  {TagDate, TagTrueObject, TagFalseObject, TagNumberObject, TagBigIntObject,
   TagArrayBuffer, TagResizableArrayBuffer}
ContainerTags ==
  {TagBeginJsObject, TagBeginSparseJsArray, TagBeginDenseJsArray, TagBeginJsMap,
   TagBeginJsSet, TagError}

\* the match of read_object_internal on the tag read (de.rs 192-323), d after
\* the tag
Dispatch(d, tag) ==
  IF tag = TagVerifyObjectCount
  THEN Try(d, read_varint(d.bytes, d.position), LAMBDA d1, count :
         Goto(Push(d1, [fn |-> "read_object_internal", arm |-> "VerifyObjectCount"]), "call"))
  ELSE IF tag \in ValueTags
  THEN Try(d, ReadValue(d.bytes, d.position, tag), LAMBDA d1, value :
         Return(d1, value.value))
  ELSE IF tag = TagObjectReference THEN read_object_reference(d)
  ELSE IF tag \in HeapValueTags
  THEN Try(d, ReadHeapValue(d.bytes, d.position, tag), LAMBDA d1, heap_value :
             Then(insert(d1, heap_value.value), LAMBDA d2 :
               Return(d2, HeapReference(Len(d.values)))))
  ELSE IF tag = TagStringObject
  THEN Goto(Push(d, [fn |-> "read_object_internal", arm |-> "StringObject"]), "string")
  ELSE IF tag = TagRegExp
  THEN Goto(Push(d, [fn |-> "read_object_internal", arm |-> "RegExp"]), "string")
  ELSE IF tag = TagArrayBufferTransfer THEN read_transferred_js_array_buffer(d)
  ELSE IF tag \in ContainerTags
  THEN Then(ReadContainer(reserve(d), tag), LAMBDA d1 : Goto(d1, "loop"))
  ELSE With({i \in 1..Len(Unsupported) : Unsupported[i].tag = tag}, LAMBDA refused :
    IF refused # {}
    THEN Fail(d, err(d.position, Unsupported[CHOOSE i \in refused : TRUE].kind, <<>>))
    ELSE Fail(d, err(d.position, "UnexpectedTag", <<tag>>)))

\* the arms of read_string_value that read a string (de.rs 399-407)
ReadString(bytes, p, tag) ==
  IF tag = TagUtf8String THEN read_utf8_string(bytes, p)
  ELSE IF tag = TagOneByteString THEN read_one_byte_string(bytes, p)
  ELSE IF tag = TagTwoByteString THEN read_two_byte_string(bytes, p)
  ELSE err(p, "UnexpectedTag", <<tag>>)

\* read_string_value (de.rs 383-411) from its entry, to its return with a
\* string or to the entry of the read_string_value that follows
\* VerifyObjectCount, which has its own frame.
read_string_value(d0) ==
  IF d0.recursion_depth > RECURSION_DEPTH_LIMIT
  THEN Fail(d0, err(d0.position, "TooDeeplyNested", <<>>))
  ELSE Try(Expect(Expect(d0, d0.position, "tag"), d0.position, "value"),
           read_byte(d0.bytes, skip_padding(d0.bytes, d0.position)), LAMBDA d, tag :
    IF tag.value = TagVerifyObjectCount
    THEN Try(d, read_varint(d.bytes, d.position), LAMBDA d1, count :
           Push([d1 EXCEPT !.recursion_depth = @ + 1], [fn |-> "read_string_value"]))
    ELSE Try(d, ReadString(d.bytes, d.position, tag.value), LAMBDA d1, str :
           [d1 EXCEPT !.pc = "string_return", !.ret = str.value]))

\* read_string_value (de.rs 396-398) from the return of the
\* read_string_value that follows VerifyObjectCount
resume_read_string_value(d) == [Pop(d) EXCEPT !.recursion_depth = @ - 1]

\* the StringObject arm of read_object_internal (de.rs 264-269) from the
\* return of read_string_value
resume_string_object(d) ==
  Then(insert(Pop(d), StringObject(d.ret)), LAMBDA d1 :
    Return(d1, HeapReference(Len(d.values))))

\* read_regexp (de.rs 534-546) from the return of read_string_value, and
\* the RegExp arm of read_object_internal (de.rs 270-275)
resume_read_regexp(d0) ==
  Try(d0, read_varint(d0.bytes, d0.position), LAMBDA d, flags :
    IF ~accepted_flags(flags.value).some
    THEN Fail(d, err(d.position, "InvalidRegExpFlags", <<flags.value>>))
    ELSE Then(insert(Pop(d), [t |-> "RegExp", pattern |-> d.ret,
                              flags |-> accepted_flags(flags.value).v]), LAMBDA d1 :
           Return(d1, HeapReference(Len(d.values)))))

\* read_js_error (de.rs 774-780) from the return of read_string_value
resume_error_string(d) ==
  Goto(SetTop(d, [Top(d) EXCEPT ![Top(d).field] = Some(d.ret)]), "loop")

\* the caller of read_string_value takes the string it has returned
StringReturned(d) ==
  IF Top(d).fn = "read_string_value" THEN resume_read_string_value(d)
  ELSE IF Top(d).fn = "read_js_error" THEN resume_error_string(d)
  ELSE IF Top(d).arm = "StringObject" THEN resume_string_object(d)
  ELSE resume_read_regexp(d)

\* read_object_internal (de.rs 184-324), up to the first read_object it calls,
\* to the head of the loop of a container, or to its return with a value
\* without children.
read_object_internal(d0) ==
  Try(Expect(Expect(d0, d0.position, "tag"), d0.position, "value"),
      read_byte(d0.bytes, skip_padding(d0.bytes, d0.position)),
      LAMBDA d, tag : Dispatch(d, tag.value))

\* read_object without the test of the depth
read_object_unchecked(d) == read_object_internal([d EXCEPT !.recursion_depth = @ + 1])

\* read_object (de.rs 152-160) from its entry
read_object(d) ==
  IF d.recursion_depth > RECURSION_DEPTH_LIMIT
  THEN Fail(d, err(d.position, "TooDeeplyNested", <<>>))
  ELSE read_object_internal([d EXCEPT !.recursion_depth = @ + 1])

\* The head of the loop of the callee the top frame is in.
Loop(d) ==
  IF Top(d).fn = "read_js_object_properties" THEN read_js_object_properties(d)
  ELSE IF Top(d).fn = "read_dense_js_array" THEN read_dense_js_array(d)
  ELSE IF Top(d).fn = "read_js_map" THEN read_js_map(d)
  ELSE IF Top(d).fn = "read_js_set" THEN read_js_set(d)
  ELSE read_js_error(d)

\* read_js_object_properties (de.rs 434-444) from the return of a read_object
\* with ret: a key that is a PropertyKey is kept, or the property is pushed.
resume_read_js_object_properties(d) ==
  IF Top(d).phase = "key"
  THEN IF d.ret.t \notin {"I32", "U32", "Double", "String"}
       THEN Fail(d, err(d.position, "InvalidPropertyKey", <<d.ret>>))
       ELSE Goto(SetTop(d, [Top(d) EXCEPT !.key = d.ret, !.phase = "value"]), "call")
  ELSE Goto(SetTop(d, [Top(d) EXCEPT !.properties = Append(@, <<Top(d).key, d.ret>>),
                                     !.phase = "head"]), "loop")

\* read_dense_js_array (de.rs 502-503) from the return of read_object
resume_read_dense_js_array(d) ==
  Goto(SetTop(d, [Top(d) EXCEPT !.elements = Append(@, Some(d.ret))]), "loop")

\* read_js_map (de.rs 560-562) from the return of a read_object
resume_read_js_map(d) ==
  IF Top(d).phase = "key"
  THEN Goto(SetTop(d, [Top(d) EXCEPT !.key = d.ret, !.phase = "value"]), "call")
  ELSE Goto(SetTop(d, [Top(d) EXCEPT !.entries = Append(@, <<Top(d).key, d.ret>>),
                                     !.phase = "head"]), "loop")

\* read_js_set (de.rs 588-589) from the return of read_object
resume_read_js_set(d) ==
  Goto(SetTop(d, [Top(d) EXCEPT !.values = Append(@, d.ret)]), "loop")

\* read_js_error (de.rs 781-783) from the return of read_object
resume_read_js_error(d) ==
  Goto(SetTop(d, [Top(d) EXCEPT !.cause = Some(d.ret)]), "loop")

\* read_object_internal (de.rs 194) from the return of the read_object that
\* follows VerifyObjectCount: its result is the result of read_object_internal.
resume_read_object_internal(d) == Goto(Pop(d), "tail")

\* HeapBuilder::build (value.rs 1108-1117): the index of the first slot that
\* is still reserved, or none
build(values) ==
  With({i \in 1..Len(values) : ~values[i].some}, LAMBDA empty :
    IF empty # {}
    THEN [ok |-> FALSE, index |-> (CHOOSE i \in empty : \A j \in empty : i <= j) - 1]
    ELSE [ok |-> TRUE, value |-> Vec([i \in 1..Len(values) |-> values[i].v])])

\* ValueDeserializer::read (de.rs 131-141) up to the call of read_object
read(d0) ==
  Try([Expect(d0, d0.position, "tag") EXCEPT !.given = d0.transfer_map],
      expect_tag(d0.bytes, d0.position, TagVersion), LAMBDA d, version_tag :
    Try(d, read_varint(d.bytes, d.position), LAMBDA d1, version :
      IF ~(version.value >= MINIMUM_WIRE_FORMAT_VERSION
           /\ version.value <= MAXIMUM_WIRE_FORMAT_VERSION)
      THEN Fail(d1, err(d1.position, "InvalidWireFormatVersion", <<version.value>>))
      ELSE Goto(Push(d1, [fn |-> "read"]), "call")))

\* ValueDeserializer::read (de.rs 141-146) from the return of read_object
resume_read(d) ==
  Try(d, expect_eof(d.bytes, d.position), LAMBDA d1, eof :
    With(build(d.values), LAMBDA heap :
      IF ~heap.ok THEN Fail(d, err_current(d.position, "HeapBuildError", <<heap.index>>))
      ELSE [Pop(d) EXCEPT !.pc = "done",
                          !.result = [t |-> "Ok", value |-> d.ret, heap |-> heap.value]]))

\* ValueDeserializer::default() holding the input it will be given
NewDeserializer(bytes) ==
  [bytes |-> bytes, position |-> 0, values |-> <<>>, recursion_depth |-> 0,
   transfer_map |-> <<>>, stack |-> <<>>, pc |-> "new", ret |-> Undefined,
   result |-> [t |-> "None"], expect |-> {}, given |-> <<>>, steps |-> 0]

\* ValueDeserializer::transfer_array_buffer (de.rs 127-129)
transfer_array_buffer(d, id, ab) ==
  [d EXCEPT !.transfer_map = [i \in DOMAIN @ \cup {id} |-> IF i = id THEN ab ELSE @[i]]]

\* the frame on top takes the value a read_object has returned
Resumed(d) ==
  IF Top(d).fn = "read" THEN resume_read(d)
  ELSE IF Top(d).fn = "read_object_internal" THEN resume_read_object_internal(d)
  ELSE IF Top(d).fn = "read_js_object_properties" THEN resume_read_js_object_properties(d)
  ELSE IF Top(d).fn = "read_dense_js_array" THEN resume_read_dense_js_array(d)
  ELSE IF Top(d).fn = "read_js_map" THEN resume_read_js_map(d)
  ELSE IF Top(d).fn = "read_js_set" THEN resume_read_js_set(d)
  ELSE resume_read_js_error(d)

\* One step of the deserializer: the code that runs next.
Step(d) ==
  Tick(IF d.pc = "new" THEN read(d)
       ELSE IF d.pc = "call" THEN read_object(d)
       ELSE IF d.pc = "loop" THEN Loop(d)
       ELSE IF d.pc = "tail" THEN read_object_tail(d)
       ELSE IF d.pc = "string" THEN read_string_value(d)
       ELSE IF d.pc = "string_return" THEN StringReturned(d)
       ELSE Resumed(d))

\* The state in which read returns.
RECURSIVE Run(_)
Run(d) == IF d.pc = "done" THEN d ELSE With(Step(d), LAMBDA next : Run(next))


(***************************************************************************)
(* src/src/ser.rs: ValueSerializer.  The bytes each writer appends come    *)
(* first, as operators from what is written to the bytes; a writer whose   *)
(* output depends on the length of the data so far (write_string aligns a  *)
(* two-byte string) takes that length.                                     *)
(***************************************************************************)

\* write_varint (ser.rs 102-113), the loop on a u32 kept as its two 16-bit
\* halves: value >= 0x80, (value & 0x7f) | 0x80, value >>= 7
RECURSIVE write_varint_loop(_)
write_varint_loop(value) ==
  IF value.hi > 0 \/ value.lo >= 128
  THEN <<(value.lo % 128) + 128>>
       \o write_varint_loop([hi |-> value.hi \div 128,
                             lo |-> (value.hi % 128) * 512 + value.lo \div 128])
  ELSE <<value.lo>>

\* write_varint (ser.rs 102-113)
write_varint(value) == write_varint_loop([hi |-> value \div 65536, lo |-> value % 65536])

\* write_varint_u8 (ser.rs 114-116)
write_varint_u8(value) == write_varint(value)

\* write_zigzag (ser.rs 118-125): ((value << 1) ^ (value >> 31)) as u32
write_zigzag(value) ==
  write_varint(IF value >= 0 THEN 2 * value ELSE -2 * value - 1)

\* write_double (ser.rs 127-129)
write_double(value) == value

\* write_smi, write_u32, write_number (ser.rs 131-145)
write_smi(val) == <<TagInt32>> \o write_zigzag(val)
write_u32(int) == <<TagUint32>> \o write_varint(int)
write_number(val) == <<TagDouble>> \o write_double(val)

\* BigInt::to_bytes_le: the magnitude, one zero byte for zero
to_bytes_le(val) == IF val.mag = <<>> THEN <<0>> ELSE val.mag

\* write_bigint_contents (ser.rs 158-169), the bitfield of a magnitude of
\* `length` bytes.  length is the usize bytes.len() kept as 16-bit halves, hi
\* of 65536 or more being a length that try_into::<u32> refuses; the result
\* is the u32 bitfield: sign | length << 1.
bigint_bitfield(sign, length) ==
  IF length.hi >= 65536 THEN [t |-> "Err", kind |-> "BigIntTooLarge"]
  ELSE IF length.hi >= 32768 THEN [t |-> "Err", kind |-> "BigIntTooLarge"]
  ELSE [t |-> "Ok",
        value |-> [hi |-> (2 * length.hi + length.lo \div 32768) % 65536,
                   lo |-> ((2 * length.lo) % 65536) + (IF sign = "Minus" THEN 1 ELSE 0)]]

\* write_bigint_contents (ser.rs 153-172): the magnitudes of the values that
\* are written whole are short, and their bitfield is Ok
write_bigint_contents(val) ==
  With(to_bytes_le(val), LAMBDA bytes :
    write_varint_loop(bigint_bitfield(val.sign, [hi |-> 0, lo |-> Len(bytes)]).value)
    \o bytes)

\* write_bigint (ser.rs 147-151)
write_bigint(val) == <<TagBigInt>> \o write_bigint_contents(val)

\* bytes_needed_for_varint (ser.rs 515-523)
RECURSIVE bytes_needed_for_varint(_)
bytes_needed_for_varint(value) ==
  IF value >= 128 THEN 1 + bytes_needed_for_varint(value \div 128) ELSE 1

\* TwoByteString::as_u8_bytes: the code units in host byte order
as_u8_bytes(chars) ==
  Vec([i \in 1..(2 * Len(chars)) |->
     IF i % 2 = 1 THEN chars[(i + 1) \div 2] % 256 ELSE chars[i \div 2] \div 256])

\* write_string writing no padding
write_string_unpadded(data_len, str) ==
  IF str.enc = "Wtf8"
  THEN <<TagUtf8String>> \o write_varint(Len(str.data)) \o str.data
  ELSE IF str.enc = "OneByte"
  THEN <<TagOneByteString>> \o write_varint(Len(str.data)) \o str.data
  ELSE With(as_u8_bytes(str.data), LAMBDA bytes :
         <<TagTwoByteString>> \o write_varint(Len(bytes)) \o bytes)

\* write_string (ser.rs 174-216) when the data is data_len bytes long
write_string(data_len, str) ==
  IF str.enc = "Wtf8"
  THEN <<TagUtf8String>> \o write_varint(Len(str.data)) \o str.data
  ELSE IF str.enc = "OneByte"
  THEN <<TagOneByteString>> \o write_varint(Len(str.data)) \o str.data
  ELSE With(as_u8_bytes(str.data), LAMBDA bytes :
         (IF (data_len + 1 + bytes_needed_for_varint(Len(bytes))) % 2 = 1
          THEN <<TagPadding>> ELSE <<>>)
         \o <<TagTwoByteString>> \o write_varint(Len(bytes)) \o bytes)

\* write_regexp (ser.rs 297-305)
write_regexp(data_len, regexp) ==
  With(write_string(data_len + 1, regexp.pattern), LAMBDA pattern :
    <<TagRegExp>> \o pattern \o write_varint(regexp.flags))

\* write_date (ser.rs 307-310)
write_date(date) == <<TagDate>> \o write_double(date.time_since_epoch)

\* write_array_buffer (ser.rs 426-436)
write_array_buffer(ab) ==
  IF ab.max_byte_length # None
  THEN <<TagResizableArrayBuffer>> \o write_varint(Len(ab.data))
       \o write_varint(ab.max_byte_length.v) \o ab.data
  ELSE <<TagArrayBuffer>> \o write_varint(Len(ab.data)) \o ab.data

\* write_array_buffer_view (ser.rs 438-469)
write_array_buffer_view(abv) ==
  With(ViewKinds[CHOOSE i \in 1..Len(ViewKinds) : ViewKinds[i].kind = abv.kind].tag,
       LAMBDA tag :
    <<TagArrayBufferView>> \o write_varint_u8(tag) \o write_varint(abv.byte_offset)
    \o write_varint(abv.length * byte_width(abv.kind))
    \o write_varint((IF abv.is_length_tracking THEN 1 ELSE 0)
                    + (IF abv.is_backed_by_rab THEN 2 ELSE 0)))

(***************************************************************************)
(* The serializer as a machine.  A serializer s is a record: heap and      *)
(* value are the arguments of finish (heap the HeapValues by index, a      *)
(* reference outside of it dangling), data, id_map and recursion_depth the *)
(* fields of ValueSerializer, stack the calls in progress (the last one    *)
(* is running; a frame holds the arguments and the place in the function), *)
(* pc "new" before finish, "run" inside it and "done" when it has          *)
(* returned result.  log records, for every write_heap_value_inner that    *)
(* wrote something, the heap index, the ID, whether the value was written  *)
(* in full, and the offset in data where what it wrote starts.             *)
(***************************************************************************)
NewSerializer(heap, value) ==
  [heap |-> heap, value |-> value, data |-> <<>>, id_map |-> <<>>,
   recursion_depth |-> 0, stack |-> <<>>, pc |-> "new",
   result |-> [t |-> "None"], log |-> <<>>]

Emit(s, bytes) == [s EXCEPT !.data = @ \o bytes]

SerFail(s, kind) ==
  [s EXCEPT !.pc = "done", !.result = [t |-> "Err", kind |-> kind]]

\* finish returns Ok(self.data) when write_value has returned (ser.rs 66)
Finished(s) ==
  IF s.pc = "run" /\ s.stack = <<>>
  THEN [s EXCEPT !.pc = "done", !.result = [t |-> "Ok", data |-> s.data]]
  ELSE s

\* write_header (ser.rs 69-72)
write_header(s) == Emit(s, <<TagVersion>> \o write_varint(WIRE_FORMAT_VERSION))

\* finish (ser.rs 59-67) up to its call of write_value
finish(s) ==
  Push([write_header(s) EXCEPT !.pc = "run"],
       [op |-> "write_value", value |-> s.value, phase |-> "start"])

\* write_value (ser.rs 80-92) for a value that is no HeapReference
write_primitive(data_len, value) ==
  IF value.t = "Undefined" THEN <<TagUndefined>>
  ELSE IF value.t = "Null" THEN <<TagNull>>
  ELSE IF value.t = "Bool" THEN (IF value.v THEN <<TagTrue>> ELSE <<TagFalse>>)
  ELSE IF value.t = "I32" THEN write_smi(value.v)
  ELSE IF value.t = "U32" THEN write_u32(value.v)
  ELSE IF value.t = "Double" THEN write_number(value.v)
  ELSE IF value.t = "BigInt" THEN write_bigint(value.v)
  ELSE write_string(data_len, value.v)

\* write_value (ser.rs 74-95): from its start, and from the return of
\* write_heap_reference
write_value(s) ==
  With(Top(s), LAMBDA f :
    IF f.phase = "return" THEN Pop([s EXCEPT !.recursion_depth = @ - 1])
    ELSE IF f.value.t = "HeapReference"
    THEN Push(SetTop([s EXCEPT !.recursion_depth = @ + 1], [f EXCEPT !.phase = "return"]),
              [op |-> "write_heap_reference", reference |-> f.value.index,
               phase |-> "start"])
    ELSE Emit(Pop(s), write_primitive(Len(s.data), f.value)))

\* write_heap_reference that writes a view without its buffer
write_heap_reference_alone(s) ==
  With(Top(s), LAMBDA f :
    IF f.reference >= Len(s.heap) THEN SerFail(s, "DanglingHeapReference")
    ELSE SetTop(s, [op |-> "write_heap_value_inner", reference |-> f.reference]))

\* write_heap_reference (ser.rs 218-237): from its start, and from the return
\* of the write_heap_reference of a view's buffer
write_heap_reference(s) ==
  With(Top(s), LAMBDA f :
    IF f.phase = "return"
    THEN SetTop([s EXCEPT !.recursion_depth = @ - 1],
                [op |-> "write_heap_value_inner", reference |-> f.reference])
    ELSE IF f.reference >= Len(s.heap) THEN SerFail(s, "DanglingHeapReference")
    ELSE IF s.heap[f.reference + 1].t = "ArrayBufferView"
            /\ f.reference \notin DOMAIN s.id_map
    THEN Push(SetTop([s EXCEPT !.recursion_depth = @ + 1], [f EXCEPT !.phase = "return"]),
              [op |-> "write_heap_reference",
               reference |-> s.heap[f.reference + 1].buffer, phase |-> "start"])
    ELSE SetTop(s, [op |-> "write_heap_value_inner", reference |-> f.reference]))

\* The frame of write_object_properties (ser.rs 327-349)
WritePropertiesFrame(properties, end_tag) ==
  [op |-> "write_object_properties", properties |-> properties,
   end_tag |-> end_tag, i |-> 1]

\* ErrorName to its ErrorTag (ser.rs 484-495)
name_tag(name) ==
  IF name = "Error" THEN <<>>
  ELSE write_varint(ErrorNames[CHOOSE i \in 1..Len(ErrorNames) :
                                 ErrorNames[i].name = name].tag)

\* write_error (ser.rs 483-500) up to the cause: the tag, the name, the message
write_error_head(data_len, error) ==
  With(<<TagError>> \o name_tag(error.name), LAMBDA head :
    IF error.message.some
    THEN head \o write_varint(ErrMessage)
         \o write_string(data_len + Len(head) + 1, error.message.v)
    ELSE head)

\* write_heap_value_inner (ser.rs 261-295): the match on the value, the frame
\* of write_heap_value_inner on top; a container leaves the frame of its
\* writer in its place.
write_heap_value(s, value) ==
  IF value.t = "BooleanObject"
  THEN Emit(Pop(s), IF value.v THEN <<TagTrueObject>> ELSE <<TagFalseObject>>)
  ELSE IF value.t = "NumberObject"
  THEN Emit(Pop(s), <<TagNumberObject>> \o write_double(value.v))
  ELSE IF value.t = "BigIntObject"
  THEN Emit(Pop(s), <<TagBigIntObject>> \o write_bigint_contents(value.v))
  ELSE IF value.t = "StringObject"
  THEN Emit(Pop(s), <<TagStringObject>> \o write_string(Len(s.data) + 1, value.v))
  ELSE IF value.t = "RegExp" THEN Emit(Pop(s), write_regexp(Len(s.data), value))
  ELSE IF value.t = "Date" THEN Emit(Pop(s), write_date(value))
  ELSE IF value.t = "Object"
  THEN Emit(SetTop(s, WritePropertiesFrame(value.properties, TagEndJsObject)),
            <<TagBeginJsObject>>)
  ELSE IF value.t = "SparseArray"
  THEN Emit(Push(SetTop(s, [op |-> "write_sparse_array", length |-> value.length]),
                 WritePropertiesFrame(value.properties, TagEndSparseJsArray)),
            <<TagBeginSparseJsArray>> \o write_varint(value.length))
  ELSE IF value.t = "DenseArray"
  THEN Emit(SetTop(s, [op |-> "write_dense_array", elements |-> value.elements,
                       properties |-> value.properties, i |-> 1, phase |-> "elements"]),
            <<TagBeginDenseJsArray>> \o write_varint(Len(value.elements)))
  ELSE IF value.t = "Map"
  THEN Emit(SetTop(s, [op |-> "write_map", entries |-> value.entries, i |-> 1,
                       phase |-> "key"]),
            <<TagBeginJsMap>>)
  ELSE IF value.t = "Set"
  THEN Emit(SetTop(s, [op |-> "write_set", values |-> value.values, i |-> 1]),
            <<TagBeginJsSet>>)
  ELSE IF value.t = "ArrayBuffer" THEN Emit(Pop(s), write_array_buffer(value))
  ELSE IF value.t = "ArrayBufferView" THEN Emit(Pop(s), write_array_buffer_view(value))
  ELSE Emit(SetTop(s, [op |-> "write_error", stack |-> value.stack, cause |-> value.cause,
                       phase |-> "cause"]),
            write_error_head(Len(s.data), value))

\* what write_heap_value_inner records in the log
Logged(s, reference, id, full) ==
  [s EXCEPT !.log = Append(@, [index |-> reference, id |-> id, full |-> full,
                                at |-> Len(s.data)])]

\* write_heap_value_inner that registers no ID
write_heap_value_inner_unregistered(s) ==
  With(Top(s).reference, LAMBDA reference :
    With(Cardinality(DOMAIN s.id_map), LAMBDA next_id :
      IF s.recursion_depth > SER_RECURSION_DEPTH_LIMIT
      THEN SerFail(s, "RecursionDepthLimitExceeded")
      ELSE write_heap_value(Logged(s, reference, next_id, TRUE),
                            s.heap[reference + 1])))

\* write_heap_value_inner (ser.rs 239-296)
write_heap_value_inner(s) ==
  With(Top(s).reference, LAMBDA reference :
    With(Cardinality(DOMAIN s.id_map), LAMBDA next_id :
      IF reference \in DOMAIN s.id_map
      THEN Emit(Pop(Logged(s, reference, s.id_map[reference], FALSE)),
                <<TagObjectReference>> \o write_varint(s.id_map[reference]))
      ELSE With([s EXCEPT !.id_map = [r \in DOMAIN @ \cup {reference} |->
                                        IF r = reference THEN next_id ELSE @[r]]],
                LAMBDA s1 :
             IF s1.recursion_depth > SER_RECURSION_DEPTH_LIMIT
             THEN SerFail(s1, "RecursionDepthLimitExceeded")
             ELSE write_heap_value(Logged(s1, reference, next_id, TRUE),
                                   s1.heap[reference + 1]))))

\* write_object_properties (ser.rs 327-349) at the head of its loop
write_object_properties(s) ==
  With(Top(s), LAMBDA f :
    IF f.i > Len(f.properties)
    THEN Emit(Pop(s), <<f.end_tag>> \o write_varint(Len(f.properties)))
    ELSE Push(Emit(SetTop(s, [f EXCEPT !.i = @ + 1]),
                   write_primitive(Len(s.data), f.properties[f.i][1])),
              [op |-> "write_value", value |-> f.properties[f.i][2], phase |-> "start"]))

\* write_sparse_array (ser.rs 364) when write_object_properties has returned
write_sparse_array(s) == Emit(Pop(s), write_varint(Top(s).length))

\* write_dense_array (ser.rs 379-392): at the head of the loop over the
\* elements, and when write_object_properties has returned
write_dense_array(s) ==
  With(Top(s), LAMBDA f :
    IF f.phase = "length" THEN Emit(Pop(s), write_varint(Len(f.elements)))
    ELSE IF f.i > Len(f.elements)
    THEN Push(SetTop(s, [f EXCEPT !.phase = "length"]),
              WritePropertiesFrame(f.properties, TagEndDenseJsArray))
    ELSE IF f.elements[f.i].some
    THEN Push(SetTop(s, [f EXCEPT !.i = @ + 1]),
              [op |-> "write_value", value |-> f.elements[f.i].v, phase |-> "start"])
    ELSE Emit(SetTop(s, [f EXCEPT !.i = @ + 1]), <<TagTheHole>>))

\* write_map (ser.rs 407-413) at the head of its loop and between the key and
\* the value of an entry
write_map(s) ==
  With(Top(s), LAMBDA f :
    IF f.i > Len(f.entries)
    THEN Emit(Pop(s), <<TagEndJsMap>> \o write_varint(Len(f.entries) * 2))
    ELSE IF f.phase = "key"
    THEN Push(SetTop(s, [f EXCEPT !.phase = "value"]),
              [op |-> "write_value", value |-> f.entries[f.i][1], phase |-> "start"])
    ELSE Push(SetTop(s, [f EXCEPT !.phase = "key", !.i = @ + 1]),
              [op |-> "write_value", value |-> f.entries[f.i][2], phase |-> "start"]))

\* write_set (ser.rs 426-431) at the head of its loop
write_set(s) ==
  With(Top(s), LAMBDA f :
    IF f.i > Len(f.values)
    THEN Emit(Pop(s), <<TagEndJsSet>> \o write_varint(Len(f.values)))
    ELSE Push(SetTop(s, [f EXCEPT !.i = @ + 1]),
              [op |-> "write_value", value |-> f.values[f.i], phase |-> "start"]))

\* write_error (ser.rs 505-510): the stack and the end
write_error_tail(data_len, stack) ==
  (IF stack.some
   THEN write_varint(ErrStack) \o write_string(data_len + 1, stack.v) ELSE <<>>)
  \o write_varint(ErrEnd)

\* write_error (ser.rs 501-512): from the cause on, and when the write_value
\* of the cause has returned
write_error(s) ==
  With(Top(s), LAMBDA f :
    IF f.phase = "cause" /\ f.cause.some
    THEN Push(Emit(SetTop(s, [f EXCEPT !.phase = "stack"]), write_varint(ErrCause)),
              [op |-> "write_value", value |-> f.cause.v, phase |-> "start"])
    ELSE Emit(Pop(s), write_error_tail(Len(s.data), f.stack)))

\* One step of the serializer: the code that runs next.
SerStep(s) ==
  Finished(IF s.pc = "new" THEN finish(s)
           ELSE IF Top(s).op = "write_value" THEN write_value(s)
           ELSE IF Top(s).op = "write_heap_reference" THEN write_heap_reference(s)
           ELSE IF Top(s).op = "write_heap_value_inner" THEN write_heap_value_inner(s)
           ELSE IF Top(s).op = "write_object_properties" THEN write_object_properties(s)
           ELSE IF Top(s).op = "write_sparse_array" THEN write_sparse_array(s)
           ELSE IF Top(s).op = "write_dense_array" THEN write_dense_array(s)
           ELSE IF Top(s).op = "write_map" THEN write_map(s)
           ELSE IF Top(s).op = "write_set" THEN write_set(s)
           ELSE write_error(s))

(***************************************************************************)
(* src/src/value.rs: value_eq and the HeapEq implementations.  The two     *)
(* visited sets are shared by the whole traversal, so every comparison     *)
(* takes and returns a record st: ok is the result so far, left and right  *)
(* the visited sets (heap indices), panic whether an index was out of      *)
(* range (HeapReference::open indexes heap.values).  A comparison is only  *)
(* evaluated while ok holds, as && and the early returns of the code have  *)
(* it.                                                                     *)
(***************************************************************************)
Decided(st, ok) == [st EXCEPT !.ok = ok]

\* Wtf8::to_ill_formed_utf16 from byte i on; bytes that are not WTF-8 are
\* outside the model (a missing continuation byte reads as 0)
RECURSIVE to_ill_formed_utf16(_, _)
to_ill_formed_utf16(bytes, i) ==
  IF i > Len(bytes) THEN <<>>
  ELSE LET b == bytes[i]
           c(k) == IF i + k <= Len(bytes) THEN bytes[i + k] % 64 ELSE 0
       IN IF b < 128 THEN <<b>> \o to_ill_formed_utf16(bytes, i + 1)
          ELSE IF b < 224
          THEN <<(b % 32) * 64 + c(1)>> \o to_ill_formed_utf16(bytes, i + 2)
          ELSE IF b < 240
          THEN <<(b % 16) * 4096 + c(1) * 64 + c(2)>> \o to_ill_formed_utf16(bytes, i + 3)
          ELSE LET cp == (b % 8) * 262144 + c(1) * 4096 + c(2) * 64 + c(3) - 65536
               IN <<55296 + (cp \div 1024), 56320 + (cp % 1024)>>
                  \o to_ill_formed_utf16(bytes, i + 4)

\* the UTF-16 code units StringValue::eq compares (value.rs 96-113)
encode_utf16(str) ==
  IF str.enc = "Wtf8" THEN to_ill_formed_utf16(str.data, 1) ELSE str.data

\* impl PartialEq for StringValue (value.rs 94-116)
StringValue_eq(a, b) == encode_utf16(a) = encode_utf16(b)

\* f64 == f64
F64Eq(a, b) == ~F64IsNaN(a) /\ ~F64IsNaN(b) /\ (a = b \/ (F64IsZero(a) /\ F64IsZero(b)))

\* the match arms for two doubles (value.rs 72-73, 379-384)
Double_eq(a, b) == (F64IsNaN(a) /\ F64IsNaN(b)) \/ F64Eq(a, b)

\* i32::to_string, u32::to_string: the decimal digits, a sign before them
RECURSIVE Digits(_)
Digits(n) == IF n < 10 THEN <<48 + n>> ELSE Digits(n \div 10) \o <<48 + (n % 10)>>
to_string(n) == IF n < 0 THEN <<45>> \o Digits(-n) ELSE Digits(n)

\* impl PartialEq for PropertyKey (value.rs 450-466): the keys as strings.
\* The decimal form of a double is outside the model: a Double key is equal
\* to the Double keys of the same value only.
PropertyKey_to_string(key) ==
  IF key.t \in {"I32", "U32"} THEN [string |-> to_string(key.v)]
  ELSE IF key.t = "Double"
  THEN [double |-> IF F64IsNaN(key.v) THEN F64NaN ELSE key.v]
  ELSE [string |-> encode_utf16(key.v)]
PropertyKey_eq(a, b) == PropertyKey_to_string(a) = PropertyKey_to_string(b)

\* Option<StringValue> == Option<StringValue>
OptionString_eq(a, b) ==
  a.some = b.some /\ (a.some => StringValue_eq(a.v, b.v))

RECURSIVE Value_eq(_, _, _, _, _)
RECURSIVE HeapValue_eq(_, _, _, _, _)
RECURSIVE HeapReference_eq_by_slot(_, _, _, _, _)
RECURSIVE HeapReference_eq(_, _, _, _, _)
RECURSIVE Properties_eq(_, _, _, _, _, _)
RECURSIVE Elements_eq(_, _, _, _, _, _)
RECURSIVE Entries_eq(_, _, _, _, _, _)
RECURSIVE Values_eq(_, _, _, _, _, _)

\* impl HeapEq for Value (value.rs 65-86)
Value_eq(left_heap, right_heap, a, b, st) ==
  IF a.t # b.t THEN Decided(st, FALSE)
  ELSE IF a.t \in {"Undefined", "Null"} THEN st
  ELSE IF a.t \in {"Bool", "I32", "U32", "BigInt"} THEN Decided(st, a.v = b.v)
  ELSE IF a.t = "Double" THEN Decided(st, Double_eq(a.v, b.v))
  ELSE IF a.t = "String" THEN Decided(st, StringValue_eq(a.v, b.v))
  ELSE HeapReference_eq(left_heap, right_heap, a.index, b.index, st)

\* HeapReference equality that looks at the visited sets only
HeapReference_eq_by_slot(left_heap, right_heap, left, right, st) ==
  LET left_inserted == left \notin st.left
      right_inserted == right \notin st.right
      st1 == [st EXCEPT !.left = @ \cup {left}, !.right = @ \cup {right}]
  IN IF left_inserted # right_inserted THEN Decided(st1, FALSE)
     ELSE IF ~left_inserted THEN st1
     ELSE IF left >= Len(left_heap) \/ right >= Len(right_heap)
     THEN [st1 EXCEPT !.ok = FALSE, !.panic = TRUE]
     ELSE HeapValue_eq(left_heap, right_heap, left_heap[left + 1],
                       right_heap[right + 1], st1)

\* impl HeapEq for HeapReference (value.rs 1161-1178)
HeapReference_eq(left_heap, right_heap, left, right, st) ==
  IF left # right THEN Decided(st, FALSE)
  ELSE HeapReference_eq_by_slot(left_heap, right_heap, left, right, st)

\* impl HeapEq for Vec<(PropertyKey, Value)> (value.rs 489-512) from pair i on
Properties_eq(left_heap, right_heap, a, b, i, st) ==
  IF Len(a) # Len(b) THEN Decided(st, FALSE)
  ELSE IF i > Len(a) THEN st
  ELSE IF ~PropertyKey_eq(a[i][1], b[i][1]) THEN Decided(st, FALSE)
  ELSE LET st1 == Value_eq(left_heap, right_heap, a[i][2], b[i][2], st)
       IN IF ~st1.ok THEN st1
          ELSE Properties_eq(left_heap, right_heap, a, b, i + 1, st1)

\* the loop of impl HeapEq for DenseArray (value.rs 536-553) from element i on
Elements_eq(left_heap, right_heap, a, b, i, st) ==
  IF Len(a) # Len(b) THEN Decided(st, FALSE)
  ELSE IF i > Len(a) THEN st
  ELSE IF a[i].some # b[i].some THEN Decided(st, FALSE)
  ELSE IF ~a[i].some THEN Elements_eq(left_heap, right_heap, a, b, i + 1, st)
  ELSE LET st1 == Value_eq(left_heap, right_heap, a[i].v, b[i].v, st)
       IN IF ~st1.ok THEN st1
          ELSE Elements_eq(left_heap, right_heap, a, b, i + 1, st1)

\* impl HeapEq for Map (value.rs 716-739) from entry i on
Entries_eq(left_heap, right_heap, a, b, i, st) ==
  IF Len(a) # Len(b) THEN Decided(st, FALSE)
  ELSE IF i > Len(a) THEN st
  ELSE LET st1 == Value_eq(left_heap, right_heap, a[i][1], b[i][1], st)
       IN IF ~st1.ok THEN st1
          ELSE LET st2 == Value_eq(left_heap, right_heap, a[i][2], b[i][2], st1)
               IN IF ~st2.ok THEN st2
                  ELSE Entries_eq(left_heap, right_heap, a, b, i + 1, st2)

\* impl HeapEq for Set (value.rs 756-776) from value i on
Values_eq(left_heap, right_heap, a, b, i, st) ==
  IF Len(a) # Len(b) THEN Decided(st, FALSE)
  ELSE IF i > Len(a) THEN st
  ELSE LET st1 == Value_eq(left_heap, right_heap, a[i], b[i], st)
       IN IF ~st1.ok THEN st1
          ELSE Values_eq(left_heap, right_heap, a, b, i + 1, st1)

\* impl HeapEq for ArrayBufferView (value.rs 980-989)
ArrayBufferView_eq(left_heap, right_heap, a, b, st) ==
  IF a.kind # b.kind THEN Decided(st, FALSE)
  ELSE LET st1 == HeapReference_eq(left_heap, right_heap, a.buffer, b.buffer, st)
       IN IF ~st1.ok THEN st1
          ELSE Decided(st1, /\ a.byte_offset = b.byte_offset
                            /\ a.length = b.length
                            /\ a.is_length_tracking = b.is_length_tracking
                            /\ a.is_backed_by_rab = b.is_backed_by_rab)

\* impl HeapEq for Error (value.rs 1024-1032)
Error_eq(left_heap, right_heap, a, b, st) ==
  IF a.name # b.name \/ ~OptionString_eq(a.message, b.message)
     \/ ~OptionString_eq(a.stack, b.stack) \/ a.cause.some # b.cause.some
  THEN Decided(st, FALSE)
  ELSE IF ~a.cause.some THEN st
  ELSE Value_eq(left_heap, right_heap, a.cause.v, b.cause.v, st)

\* impl PartialEq for Date (value.rs 670-675)
Date_eq(a, b) ==
  (F64IsNaN(a.time_since_epoch) /\ F64IsNaN(b.time_since_epoch))
  \/ F64Eq(a.time_since_epoch, b.time_since_epoch)

\* impl HeapEq for HeapValue (value.rs 373-411), with Object, SparseArray and
\* DenseArray (value.rs 483-487, 592-598, 534-556)
HeapValue_eq(left_heap, right_heap, a, b, st) ==
  IF a.t # b.t THEN Decided(st, FALSE)
  ELSE IF a.t = "BooleanObject" THEN Decided(st, a.v = b.v)
  ELSE IF a.t = "NumberObject" THEN Decided(st, Double_eq(a.v, b.v))
  ELSE IF a.t = "BigIntObject" THEN Decided(st, a.v = b.v)
  ELSE IF a.t = "StringObject" THEN Decided(st, StringValue_eq(a.v, b.v))
  ELSE IF a.t = "RegExp"
  THEN Decided(st, StringValue_eq(a.pattern, b.pattern) /\ a.flags = b.flags)
  ELSE IF a.t = "Date" THEN Decided(st, Date_eq(a, b))
  ELSE IF a.t = "Object"
  THEN Properties_eq(left_heap, right_heap, a.properties, b.properties, 1, st)
  ELSE IF a.t = "SparseArray"
  THEN IF a.length # b.length THEN Decided(st, FALSE)
       ELSE Properties_eq(left_heap, right_heap, a.properties, b.properties, 1, st)
  ELSE IF a.t = "DenseArray"
  THEN LET st1 == Elements_eq(left_heap, right_heap, a.elements, b.elements, 1, st)
       IN IF ~st1.ok THEN st1
          ELSE Properties_eq(left_heap, right_heap, a.properties, b.properties, 1, st1)
  ELSE IF a.t = "Map"
  THEN Entries_eq(left_heap, right_heap, a.entries, b.entries, 1, st)
  ELSE IF a.t = "Set"
  THEN Values_eq(left_heap, right_heap, a.values, b.values, 1, st)
  ELSE IF a.t = "ArrayBuffer"
  THEN Decided(st, a.data = b.data /\ a.max_byte_length = b.max_byte_length)
  ELSE IF a.t = "ArrayBufferView"
  THEN ArrayBufferView_eq(left_heap, right_heap, a, b, st)
  ELSE Error_eq(left_heap, right_heap, a, b, st)

\* value_eq (value.rs 38-50): the outcome, ok the boolean it returns unless
\* it panics
value_eq(left_value, left_heap, right_value, right_heap) ==
  Value_eq(left_heap, right_heap, left_value, right_value,
           [ok |-> TRUE, left |-> {}, right |-> {}, panic |-> FALSE])

(***************************************************************************)
(* display.rs: Displayer::display.  The text written to the writer is      *)
(* modelled by its syntax: a list of statements (const bindings and        *)
(* follow-up statements) and a root expression, each expression a tree.    *)
(* Indentation and the escaping of string literals are layout and are not  *)
(* modelled.  A panic (a failed unwrap or assertion, an unreachable!       *)
(* branch, the stack exhausted by unbounded recursion) ends the call.      *)
(***************************************************************************)
Formats == <<"Repl", "Expression", "Eval">>
HeapObjectInfo ==
  [dependencies |-> {}, dependants |-> {}, dependants_count |-> 0,
   requires_binding |-> FALSE]
\* back_edges is a history of the model: the edges (from, to) that visit
\* found to lead to a value on its stack
DependencyInfo == [objects |-> <<>>, order |-> <<>>, stack |-> <<>>, back_edges |-> {}]
inlineable(info) == info.dependants_count < 2 /\ ~info.requires_binding

Members(seq) == {seq[k] : k \in 1..Len(seq)}
open(heap, reference) == heap[reference + 1]

\* the values a heap value holds, in the order visit walks them
held_values(heap_value) ==
  CASE heap_value.t \in {"Object", "SparseArray"} ->
         Vec([k \in 1..Len(heap_value.properties) |-> heap_value.properties[k][2]])
    [] heap_value.t = "DenseArray" ->
         LET present == SelectSeq(heap_value.elements, LAMBDA e : e.some)
         IN Vec([k \in 1..Len(present) |-> present[k].v])
            \o Vec([k \in 1..Len(heap_value.properties) |-> heap_value.properties[k][2]])
    [] heap_value.t = "Map" ->
         Vec([k \in 1..(2 * Len(heap_value.entries)) |->
            heap_value.entries[(k + 1) \div 2][IF k % 2 = 1 THEN 1 ELSE 2]])
    [] heap_value.t = "Set" -> heap_value.values
    [] heap_value.t = "ArrayBufferView" -> <<[t |-> "HeapReference", index |-> heap_value.buffer]>>
    [] heap_value.t = "Error" ->
         IF heap_value.cause.some THEN <<heap_value.cause.v>> ELSE <<>>
    [] OTHER -> <<>>
referred_by(heap_value) ==
  LET references == SelectSeq(held_values(heap_value), LAMBDA v : v.t = "HeapReference")
  IN Vec([k \in 1..Len(references) |-> references[k].index])

\* the heap values that visit marks as requiring a binding whatever refers to them
binding_required(heap_value) ==
  \/ heap_value.t \in {"SparseArray", "DenseArray"} /\ heap_value.properties # <<>>
  \/ heap_value.t = "ArrayBuffer" /\ heap_value.max_byte_length.some
  \/ heap_value.t = "Error"

require_binding(deps, reference) ==
  [deps EXCEPT !.objects[reference].requires_binding = TRUE]

RECURSIVE visit(_, _, _), visit_and_record(_, _, _, _)
\* visit_and_record! counting each dependant once
visit_and_record_once(heap, deps, referrer, referreds) ==
  IF referreds = <<>> THEN deps
  ELSE With(visit(heap,
                  [deps EXCEPT !.objects[referrer].dependencies = @ \cup {Head(referreds)}],
                  Head(referreds)),
            LAMBDA visited :
              visit_and_record(heap,
                               [visited EXCEPT
                                  !.objects[Head(referreds)].dependants = @ \cup {referrer},
                                  !.objects[Head(referreds)].dependants_count =
                                     IF referrer \in visited.objects[Head(referreds)].dependants
                                     THEN @ ELSE @ + 1],
                               referrer, Tail(referreds)))
\* visit_and_record! for each of the references a heap value holds
visit_and_record(heap, deps, referrer, referreds) ==
  IF referreds = <<>> THEN deps
  ELSE With(visit(heap,
                  [deps EXCEPT !.objects[referrer].dependencies = @ \cup {Head(referreds)}],
                  Head(referreds)),
            LAMBDA visited :
              visit_and_record(heap,
                               [visited EXCEPT
                                  !.objects[Head(referreds)].dependants = @ \cup {referrer},
                                  !.objects[Head(referreds)].dependants_count = @ + 1],
                               referrer, Tail(referreds)))
visit(heap, deps, referrer) ==
  IF referrer \in DOMAIN deps.objects
  THEN IF referrer \in Members(deps.stack)
       THEN [require_binding(require_binding(deps, referrer), Last(deps.stack))
               EXCEPT !.back_edges = @ \cup {<<Last(deps.stack), referrer>>}]
       ELSE deps
  ELSE With([deps EXCEPT !.objects = (referrer :> HeapObjectInfo) @@ @,
                         !.stack = Append(@, referrer)],
            LAMBDA entered :
       With(visit_and_record(heap,
                             IF binding_required(open(heap, referrer))
                             THEN require_binding(entered, referrer) ELSE entered,
                             referrer, referred_by(open(heap, referrer))),
            LAMBDA visited :
              [visited EXCEPT !.order = Append(@, referrer), !.stack = Front(@)]))

(***************************************************************************)
(* The displayer.  idents maps a reference to the i of its identifier v<i>.*)
(* scheduled is a history of the model: every task that display_heap_value *)
(* has pushed to follow_up_tasks, in the order of the pushes.              *)
(***************************************************************************)
NewDisplayer(heap, value, format) ==
  [pc |-> "new", heap |-> heap, value |-> value, format |-> format,
   deps |-> <<>>, order |-> <<>>, idents |-> <<>>, follow_up_tasks |-> <<>>,
   scheduled |-> <<>>, back_edges |-> {},
   multiline |-> FALSE, i |-> 0, out |-> <<>>, panic |-> "",
   result |-> [t |-> "None"]]
Panic(d, kind) == IF d.panic = "" THEN [d EXCEPT !.panic = kind] ELSE d

\* the views among the dependants of a buffer, in the order of order
RECURSIVE covering_view(_, _, _, _)
covering_view(d, array_buffer, info, k) ==
  IF k > Len(d.order) THEN [t |-> "None"]
  ELSE LET reference == d.order[k]
           view == open(d.heap, reference)
       IN IF reference \in info.dependants /\ view.t = "ArrayBufferView"
          THEN IF view.is_backed_by_rab
               THEN [t |-> "Panic", kind |-> "assertion failed: !view.is_backed_by_rab"]
               ELSE IF view.is_length_tracking
               THEN [t |-> "Panic", kind |-> "assertion failed: !view.is_length_tracking"]
               ELSE IF view.byte_offset = 0
                       /\ view.length * byte_width(view.kind) = Len(array_buffer.data)
               THEN [t |-> "Some", reference |-> reference]
               ELSE covering_view(d, array_buffer, info, k + 1)
          ELSE covering_view(d, array_buffer, info, k + 1)
array_buffer_view_to_render_array_buffer_in(d, array_buffer, info) ==
  IF array_buffer.max_byte_length.some THEN [t |-> "None"]
  ELSE covering_view(d, array_buffer, info, 1)

\* "yes", "no", or the panic of an assertion
is_ready_to_render(d, value) ==
  IF value.t # "HeapReference" THEN [t |-> "Ready", ready |-> TRUE]
  ELSE IF inlineable(d.deps[value.index]) \/ value.index \in DOMAIN d.idents
  THEN [t |-> "Ready", ready |-> TRUE]
  ELSE IF open(d.heap, value.index).t # "ArrayBuffer" THEN [t |-> "Ready", ready |-> FALSE]
  ELSE With(array_buffer_view_to_render_array_buffer_in(d, open(d.heap, value.index),
                                                         d.deps[value.index]),
            LAMBDA view :
              CASE view.t = "Panic" -> view
                [] view.t = "None" -> [t |-> "Ready", ready |-> FALSE]
                [] view.t = "Some" ->
                     [t |-> "Ready",
                      ready |-> inlineable(d.deps[view.reference])
                                  \/ view.reference \in DOMAIN d.idents])

(***************************************************************************)
(* Rendering.  Each display_* returns the displayer and the expression it  *)
(* wrote.  rendering is the set of references whose display_heap_value is  *)
(* on the call stack: the displayer's state is the same each time a value  *)
(* is entered inside its own rendering, so that recursion never ends and   *)
(* exhausts the stack.                                                     *)
(***************************************************************************)
Rendered(d, e) == [d |-> d, e |-> e]
Nothing == [x |-> "nothing"]
Circular == [x |-> "undefined /* circular */"]
Hole == [x |-> "/* hole */"]
Literal(value) == [x |-> "literal", value |-> value]
Ident(i) == [x |-> "ident", i |-> i]
CauseKey == [t |-> "String", v |-> [enc |-> "Wtf8", data |-> <<99, 97, 117, 115, 101>>]]
StackKey == [t |-> "String", v |-> [enc |-> "Wtf8", data |-> <<115, 116, 97, 99, 107>>]]
UnwrapNone == "called Option::unwrap() on a None value"
StackOverflow == "stack overflow"

\* The follow-up tasks.  n is a number of the model: the place of the task
\* among the pushes of display_heap_value, given when it is pushed.
PropertyAssignment(target, key, value, requires_ordering) ==
  [task |-> "PropertyAssignment", target |-> target, key |-> key, value |-> value,
   requires_ordering |-> requires_ordering, n |-> 0]
MapSet(target, key, value) ==
  [task |-> "MapSet", target |-> target, key |-> key, value |-> value, n |-> 0]
SetAdd(target, value) == [task |-> "SetAdd", target |-> target, value |-> value, n |-> 0]
ArrayBufferSet(target, kind) ==
  [task |-> "ArrayBufferSet", target |-> target, kind |-> kind, n |-> 0]
\* the pushes of the ordered assignments of an array
ScheduleAll(d, tasks) ==
  With(Vec([k \in 1..Len(tasks) |-> [tasks[k] EXCEPT !.n = Len(d.scheduled) + k]]),
       LAMBDA numbered :
         [d EXCEPT !.follow_up_tasks = @ \o numbered, !.scheduled = @ \o numbered])
\* self.follow_up_tasks.push(task) of display_heap_value
Schedule(d, task) == ScheduleAll(d, <<task>>)
\* this.follow_up_tasks.push(task) of display: the task stays pending
KeepPending(d, task) == [d EXCEPT !.follow_up_tasks = Append(@, task)]

\* the elements of the buffer read as kind, each one its little-endian bytes
display_array_buffer_data_array(kind, buffer) ==
  LET width == IF kind = "DataView" THEN 1 ELSE byte_width(kind)
  IN IF Len(buffer.data) % width # 0
     THEN [t |-> "Panic", kind |-> "assertion failed: self.byte_length() % width == 0"]
     ELSE [t |-> "Some", x |-> "array", kind |-> kind,
           elements |-> Vec([k \in 1..(Len(buffer.data) \div width) |->
                           SubSeq(buffer.data, (k - 1) * width + 1, k * width)])]
AllZero(data) == \A k \in 1..Len(data) : data[k] = 0

\* the kind chosen to write a buffer rendered on its own (display.rs:692-703)
RECURSIVE first_aligned_view_kind(_, _)
first_aligned_view_kind(d, k) ==
  IF k > Len(d.order) THEN "Uint8Array"
  ELSE LET reference == d.order[k]
           view == open(d.heap, reference)
       IN IF view.t = "ArrayBufferView" /\ view.buffer = reference
             /\ view.byte_offset % byte_width(view.kind) = 0
          THEN view.kind
          ELSE first_aligned_view_kind(d, k + 1)

\* (the expression of a buffer or of a view that holds its buffer carries the
\* reference it was written for)
\* a buffer always rendered on its own, never as the buffer of its view
display_array_buffer_alone(d, reference, ab) ==
  With(first_aligned_view_kind(d, 1), LAMBDA kind :
  With(display_array_buffer_data_array(kind, ab), LAMBDA array :
     CASE ab.max_byte_length.some ->
            Rendered(IF AllZero(ab.data) THEN d
                     ELSE Schedule(d, ArrayBufferSet(reference, kind)),
                     [x |-> "new ArrayBuffer", byte_length |-> Len(ab.data),
                      max_byte_length |-> ab.max_byte_length, reference |-> reference])
       [] ~ab.max_byte_length.some /\ AllZero(ab.data) ->
            Rendered(d, [x |-> "new ArrayBuffer", byte_length |-> Len(ab.data),
                         max_byte_length |-> None, reference |-> reference])
       [] OTHER ->
            IF array.t = "Panic" THEN Rendered(Panic(d, array.kind), Nothing)
            ELSE Rendered(d, [x |-> "buffer of new", array |-> array,
                             reference |-> reference])))
display_array_buffer(d, reference, ab) ==
  With(array_buffer_view_to_render_array_buffer_in(d, ab, d.deps[reference]), LAMBDA view :
  With(first_aligned_view_kind(d, 1), LAMBDA kind :
  With(display_array_buffer_data_array(kind, ab), LAMBDA array :
     CASE view.t = "Panic" -> Rendered(Panic(d, view.kind), Nothing)
       [] view.t = "Some" ->
            IF view.reference \in DOMAIN d.idents
            THEN Rendered(d, [x |-> "buffer of", i |-> d.idents[view.reference],
                          reference |-> reference])
            ELSE Rendered(Panic(d, UnwrapNone), Nothing)
       [] view.t = "None" /\ ab.max_byte_length.some ->
            Rendered(IF AllZero(ab.data) THEN d
                     ELSE Schedule(d, ArrayBufferSet(reference, kind)),
                     [x |-> "new ArrayBuffer", byte_length |-> Len(ab.data),
                      max_byte_length |-> ab.max_byte_length, reference |-> reference])
       [] view.t = "None" /\ ~ab.max_byte_length.some /\ AllZero(ab.data) ->
            Rendered(d, [x |-> "new ArrayBuffer", byte_length |-> Len(ab.data),
                         max_byte_length |-> None, reference |-> reference])
       [] OTHER ->
            IF array.t = "Panic" THEN Rendered(Panic(d, array.kind), Nothing)
            ELSE Rendered(d, [x |-> "buffer of new", array |-> array,
                             reference |-> reference]))))

\* the offset and length arguments of a view constructed on a buffer
view_arguments(view, buffer, explicit_length) ==
  IF view.byte_offset # 0 \/ explicit_length
  THEN IF explicit_length THEN <<view.byte_offset, view.length>> ELSE <<view.byte_offset>>
  ELSE <<>>
display_array_buffer_view(d, reference, view) ==
  With(open(d.heap, view.buffer), LAMBDA buffer :
  IF buffer.t # "ArrayBuffer"
  THEN Rendered(Panic(d, "internal error: entered unreachable code"), Nothing)
  ELSE
  With(array_buffer_view_to_render_array_buffer_in(d, buffer, d.deps[view.buffer]),
       LAMBDA covering :
  With(view.length * byte_width(view.kind) + view.byte_offset, LAMBDA length :
  With(display_array_buffer_data_array(view.kind, buffer), LAMBDA array :
          CASE covering.t = "Panic" -> Rendered(Panic(d, covering.kind), Nothing)
            [] covering.t = "Some" /\ view.is_backed_by_rab ->
                 Rendered(Panic(d, "assertion failed: !view.is_backed_by_rab"), Nothing)
            [] covering.t = "Some" /\ ~view.is_backed_by_rab /\ covering.reference = reference ->
                 IF buffer.data = <<>>
                 THEN Rendered(d, [x |-> "new view", kind |-> view.kind, of |-> Nothing,
                                   reference |-> reference])
                 ELSE IF AllZero(buffer.data)
                 THEN Rendered(d, [x |-> "new view", kind |-> view.kind,
                                   of |-> [x |-> "length",
                                           length |-> Len(buffer.data) \div byte_width(view.kind)],
                                   reference |-> reference])
                 ELSE IF array.t = "Panic" THEN Rendered(Panic(d, array.kind), Nothing)
                 ELSE Rendered(d, [x |-> "new view", kind |-> view.kind, of |-> array,
                                        reference |-> reference])
            [] covering.t = "Some" /\ ~view.is_backed_by_rab /\ covering.reference # reference ->
                 IF covering.reference \in DOMAIN d.idents
                 THEN Rendered(d, [x |-> "new view on", kind |-> view.kind,
                                   i |-> d.idents[covering.reference],
                                   arguments |-> view_arguments(view, buffer,
                                                                length # Len(buffer.data))])
                 ELSE Rendered(Panic(d, UnwrapNone), Nothing)
            [] covering.t = "None" ->
                 IF reference \in DOMAIN d.idents
                 THEN Rendered(d, [x |-> "new view on", kind |-> view.kind,
                                   i |-> d.idents[reference],
                                   arguments |->
                                     view_arguments(view, buffer,
                                       (view.is_backed_by_rab /\ ~view.is_length_tracking)
                                         \/ length # Len(buffer.data))])
                 ELSE Rendered(Panic(d, UnwrapNone), Nothing)))))

RECURSIVE display_value(_, _, _), display_heap_value(_, _, _)
RECURSIVE display_properties(_, _, _, _, _), display_elements(_, _, _, _, _, _)
RECURSIVE display_entries(_, _, _, _, _), display_values(_, _, _, _, _)
RECURSIVE display_container(_, _, _, _)

\* render value in place when it is ready, else write the placeholder and defer it
display_or_defer(d, value, task, rendering) ==
  With(is_ready_to_render(d, value), LAMBDA ready :
    IF ready.t = "Panic" THEN Rendered(Panic(d, ready.kind), Circular)
    ELSE IF ready.ready THEN display_value(d, value, rendering)
    ELSE Rendered(Schedule(d, task), Circular))

\* the properties of an object literal (display.rs:553-573)
display_properties(d, reference, properties, written, rendering) ==
  IF properties = <<>> \/ d.panic # "" THEN Rendered(d, written)
  ELSE With(display_or_defer(d, Head(properties)[2],
                             PropertyAssignment(reference, Head(properties)[1],
                                                Head(properties)[2], FALSE), rendering),
            LAMBDA r :
              display_properties(r.d, reference, Tail(properties),
                                 Append(written, <<Head(properties)[1], r.e>>), rendering))

\* the elements of an array literal (display.rs:594-616)
display_elements(d, reference, elements, i, written, rendering) ==
  IF i >= Len(elements) \/ d.panic # "" THEN Rendered(d, written)
  ELSE With(IF elements[i + 1].some
            THEN display_or_defer(d, elements[i + 1].v,
                                  PropertyAssignment(reference, I32(i), elements[i + 1].v,
                                                     FALSE),
                                  rendering)
            ELSE Rendered(d, Hole),
            LAMBDA r :
              display_elements(r.d, reference, elements, i + 1, Append(written, r.e),
                               rendering))

\* the tasks that assign the properties of an array in order
ordered_assignments(reference, properties) ==
  Vec([k \in 1..Len(properties) |->
     PropertyAssignment(reference, properties[k][1], properties[k][2], TRUE)])

\* the entries of a Map literal (display.rs:635-652): an entry is written in
\* place when its key or its value is ready
display_entries(d, reference, entries, written, rendering) ==
  IF entries = <<>> \/ d.panic # "" THEN Rendered(d, written)
  ELSE With(is_ready_to_render(d, Head(entries)[1]), LAMBDA key_ready :
       With(IF key_ready.t = "Ready" /\ ~key_ready.ready
            THEN is_ready_to_render(d, Head(entries)[2]) ELSE key_ready,
            LAMBDA either_ready :
         IF either_ready.t = "Panic" THEN Rendered(Panic(d, either_ready.kind), written)
         ELSE IF either_ready.ready
         THEN With(display_value(d, Head(entries)[1], rendering), LAMBDA k :
              With(display_value(k.d, Head(entries)[2], rendering), LAMBDA v :
                display_entries(v.d, reference, Tail(entries),
                                Append(written, <<k.e, v.e>>), rendering)))
         ELSE display_entries(Schedule(d, MapSet(reference, Head(entries)[1],
                                                 Head(entries)[2])),
                              reference, Tail(entries), written, rendering)))

\* the values of a Set literal (display.rs:662-675)
display_values(d, reference, values, written, rendering) ==
  IF values = <<>> \/ d.panic # "" THEN Rendered(d, written)
  ELSE With(is_ready_to_render(d, Head(values)), LAMBDA ready :
         IF ready.t = "Panic" THEN Rendered(Panic(d, ready.kind), written)
         ELSE IF ready.ready
         THEN With(display_value(d, Head(values), rendering), LAMBDA v :
                display_values(v.d, reference, Tail(values), Append(written, v.e),
                               rendering))
         ELSE display_values(Schedule(d, SetAdd(reference, Head(values))), reference,
                             Tail(values), written, rendering))

\* an Error (display.rs:786-831): the cause in place when it is ready, else
\* deferred; the stack is always assigned afterwards
display_error(d, reference, error, rendering) ==
  With(IF error.cause.some THEN is_ready_to_render(d, error.cause.v)
       ELSE [t |-> "Ready", ready |-> FALSE], LAMBDA ready :
    IF ready.t = "Panic" THEN Rendered(Panic(d, ready.kind), Nothing)
    ELSE With(IF ready.ready THEN display_value(d, error.cause.v, rendering)
              ELSE Rendered(IF error.cause.some
                            THEN Schedule(d, PropertyAssignment(reference, CauseKey,
                                                                error.cause.v, FALSE))
                            ELSE d, Nothing),
              LAMBDA cause :
         Rendered(Schedule(cause.d,
                           PropertyAssignment(reference, StackKey,
                                              IF error.stack.some
                                              THEN [t |-> "String", v |-> error.stack.v]
                                              ELSE Undefined, FALSE)),
                  [x |-> "new Error", name |-> error.name, message |-> error.message,
                   cause |-> IF ready.ready THEN Some(cause.e) ELSE None])))

display_value(d, value, rendering) ==
  IF d.panic # "" THEN Rendered(d, Nothing)
  ELSE IF value.t # "HeapReference" THEN Rendered(d, Literal(value))
  ELSE IF value.index \in DOMAIN d.idents THEN Rendered(d, Ident(d.idents[value.index]))
  ELSE display_heap_value(d, value.index, rendering)

\* (the literal of a Map or a Set carries the reference it was written for)
display_container(d, reference, value, rendering) ==
  CASE value.t = "Object" ->
         With(display_properties(d, reference, value.properties, <<>>, rendering),
              LAMBDA r : Rendered(r.d, [x |-> "object", properties |-> r.e]))
    [] value.t = "DenseArray" ->
         With(display_elements(d, reference, value.elements, 0, <<>>, rendering),
              LAMBDA r :
                Rendered(ScheduleAll(r.d, ordered_assignments(reference, value.properties)),
                         [x |-> "array", elements |-> r.e]))
    [] value.t = "Map" ->
         With(display_entries(d, reference, value.entries, <<>>, rendering),
              LAMBDA r : Rendered(r.d, [x |-> "new Map", entries |-> r.e,
                                        reference |-> reference]))
    [] value.t = "Set" ->
         With(display_values(d, reference, value.values, <<>>, rendering),
              LAMBDA r : Rendered(r.d, [x |-> "new Set", values |-> r.e,
                                        reference |-> reference]))

display_heap_value(d, reference, rendering) ==
  IF d.panic # "" THEN Rendered(d, Nothing)
  ELSE IF reference \in rendering THEN Rendered(Panic(d, StackOverflow), Nothing)
  ELSE With(open(d.heap, reference), LAMBDA value :
    CASE value.t \in {"BooleanObject", "NumberObject", "BigIntObject", "StringObject",
                      "RegExp", "Date"} ->
           Rendered(d, [x |-> "new", value |-> value])
      [] value.t \in {"Object", "DenseArray", "Map", "Set"} ->
           display_container(d, reference, value, rendering \cup {reference})
      [] value.t = "SparseArray" ->
           Rendered(ScheduleAll(d, ordered_assignments(reference, value.properties)),
                    [x |-> "new Array", length |-> value.length])
      [] value.t = "ArrayBuffer" -> display_array_buffer(d, reference, value)
      [] value.t = "ArrayBufferView" -> display_array_buffer_view(d, reference, value)
      [] value.t = "Error" -> display_error(d, reference, value, rendering \cup {reference}))

\* a statement written to the writer; the statement of a follow-up task
\* carries the task it was written for
Emitted(d, statement) == [d EXCEPT !.out = Append(@, statement)]

\* every task taken as soon as its target is bound
task_ready_always(d, task) == [t |-> "Ready", ready |-> TRUE]

\* whether a follow-up task can be taken now (display.rs:293, 316-317, 334,
\* 348): "yes", "no", or the panic of an assertion
task_ready(d, task) ==
  With(IF task.task = "MapSet" THEN is_ready_to_render(d, task.key)
       ELSE [t |-> "Ready", ready |-> TRUE],
       LAMBDA key_ready :
         IF key_ready.t = "Panic" \/ ~key_ready.ready THEN key_ready
         ELSE is_ready_to_render(d, IF task.task = "ArrayBufferSet" THEN d.value
                                    ELSE task.value))
\* the statement of a follow-up task that is taken
run_task(d, task) ==
  CASE task.task = "PropertyAssignment" ->
         With(display_value(d, task.value, {}), LAMBDA value :
           Emitted(value.d, [op |-> "assign", i |-> d.idents[task.target],
                             key |-> task.key, e |-> value.e, task |-> task]))
    [] task.task = "MapSet" ->
         With(display_value(d, task.key, {}), LAMBDA key :
         With(display_value(key.d, task.value, {}), LAMBDA value :
           Emitted(value.d, [op |-> "set", i |-> d.idents[task.target],
                             key |-> key.e, e |-> value.e, task |-> task])))
    [] task.task = "SetAdd" ->
         With(display_value(d, task.value, {}), LAMBDA value :
           Emitted(value.d, [op |-> "add", i |-> d.idents[task.target], e |-> value.e,
                             task |-> task]))
    [] task.task = "ArrayBufferSet" ->
         IF open(d.heap, task.target).t # "ArrayBuffer"
         THEN Panic(d, "internal error: entered unreachable code")
         ELSE With(display_array_buffer_data_array(task.kind, open(d.heap, task.target)),
                   LAMBDA array :
                     IF array.t = "Panic" THEN Panic(d, array.kind)
                     ELSE Emitted(d, [op |-> "fill", i |-> d.idents[task.target],
                                      array |-> array, task |-> task]))

\* the follow-up tasks taken after a binding (display.rs:277-361); deferred is
\* deferred_targets_for_ordered_assignments
RECURSIVE run_follow_up_tasks(_, _, _)
run_follow_up_tasks(d, tasks, deferred) ==
  IF tasks = <<>> \/ d.panic # "" THEN d
  ELSE IF Head(tasks).target \notin DOMAIN d.idents
  THEN run_follow_up_tasks(KeepPending(d, Head(tasks)), Tail(tasks), deferred)
  ELSE With(Head(tasks), LAMBDA task :
       With(task_ready(d, task), LAMBDA ready :
       With(task.task = "PropertyAssignment" /\ task.requires_ordering, LAMBDA ordered :
         IF ready.t = "Panic" THEN Panic(d, ready.kind)
         ELSE IF ~ready.ready \/ (ordered /\ task.target \in deferred)
         THEN run_follow_up_tasks(KeepPending(d, task), Tail(tasks),
                                  IF ordered THEN deferred \cup {task.target} ELSE deferred)
         ELSE With(run_task(d, task), LAMBDA taken :
                run_follow_up_tasks(taken, Tail(tasks), deferred)))))

\* display up to the loop over order (display.rs:110-252)
display_dependencies(d) ==
  With(IF d.value.t = "HeapReference"
       THEN With(visit(d.heap, DependencyInfo, d.value.index), LAMBDA visited :
              [visited EXCEPT !.objects[d.value.index].dependants_count = @ + 1])
       ELSE DependencyInfo,
       LAMBDA deps :
  With([d EXCEPT !.deps = deps.objects, !.order = deps.order, !.pc = "order",
                 !.back_edges = deps.back_edges,
                 !.multiline = \E reference \in DOMAIN deps.objects :
                                  ~inlineable(deps.objects[reference])],
       LAMBDA seen :
         IF d.value.t = "HeapReference"
            /\ (deps.order = <<>> \/ Last(deps.order) # d.value.index)
         THEN Panic(seen, "assertion failed: this.order.last() == Some(reference)")
         ELSE seen))

\* the binding of a heap value and its follow-up tasks (display.rs:268-361)
display_bound(d, bound) ==
  With(display_heap_value(d, bound, {}), LAMBDA r :
    IF r.d.panic # "" THEN r.d
    ELSE With([Emitted(r.d, [op |-> "const", i |-> d.i, reference |-> bound, e |-> r.e])
                 EXCEPT !.idents = (bound :> d.i) @@ @],
              LAMBDA named :
                run_follow_up_tasks([named EXCEPT !.follow_up_tasks = <<>>],
                                    named.follow_up_tasks, {})))

\* one turn of the loop over order (display.rs:254-363)
display_binding(d) ==
  With(d.order[d.i + 1], LAMBDA reference :
    IF reference \in DOMAIN d.idents \/ inlineable(d.deps[reference])
    THEN [d EXCEPT !.i = @ + 1]
    ELSE With(IF open(d.heap, reference).t = "ArrayBuffer"
              THEN array_buffer_view_to_render_array_buffer_in(d, open(d.heap, reference),
                                                               d.deps[reference])
              ELSE [t |-> "None"],
              LAMBDA view :
                IF view.t = "Panic" THEN Panic([d EXCEPT !.i = @ + 1], view.kind)
                ELSE [display_bound(d, IF view.t = "Some" THEN view.reference
                                       ELSE reference)
                        EXCEPT !.i = d.i + 1]))

\* display_root never writing the parentheses
display_root_bare(d) ==
  With(display_value(d, d.value, {}), LAMBDA r :
  With(d.format = "Expression" /\ d.multiline, LAMBDA function :
    IF r.d.panic = "" /\ r.d.follow_up_tasks # <<>>
    THEN Panic(r.d, "assertion failed: this.follow_up_tasks.is_empty()")
    ELSE [r.d EXCEPT !.pc = "done",
                     !.result = [t |-> "Ok", statements |-> r.d.out, root |-> r.e,
                                 function |-> function, parens |-> FALSE]]))

\* the root expression (display.rs:366-399)
display_root(d) ==
  With(display_value(d, d.value, {}), LAMBDA r :
  With(d.format = "Expression" /\ d.multiline, LAMBDA function :
    IF r.d.panic = "" /\ r.d.follow_up_tasks # <<>>
    THEN Panic(r.d, "assertion failed: this.follow_up_tasks.is_empty()")
    ELSE [r.d EXCEPT !.pc = "done",
                     !.result = [t |-> "Ok", statements |-> r.d.out, root |-> r.e,
                                 function |-> function,
                                 parens |-> /\ ~function
                                            /\ d.value.t = "HeapReference"
                                            /\ inlineable(d.deps[d.value.index])
                                            /\ open(d.heap, d.value.index).t = "Object"]]))

\* display (display.rs:1018-1022): the unwrap of the result; a panic ends the call
Displayed(d) ==
  IF d.panic # ""
  THEN [d EXCEPT !.pc = "done", !.result = [t |-> "Panic", kind |-> d.panic]]
  ELSE d

(***************************************************************************)
(* What executing the output of display builds (tests/util.rs evaluates    *)
(* it in V8 and reads the result back): the JavaScript meaning of the      *)
(* statements and expressions that display writes.  store holds the        *)
(* objects built, in the shape of a heap; env maps the i of an identifier  *)
(* v<i> to its value.  `new Array(n)` stands for a sparse array and an     *)
(* array literal for a dense one; an Error's stack is what is assigned.    *)
(***************************************************************************)
NewScript == [store |-> <<>>, env |-> <<>>, thrown |-> ""]
Evaluated(js, v) == [js |-> js, v |-> v]
Thrown(js, what) == [js EXCEPT !.thrown = IF @ = "" THEN what ELSE @]
Allocated(js, heap_value) ==
  Evaluated([js EXCEPT !.store = Append(@, heap_value)], HeapReference(Len(js.store)))
RECURSIVE Flatten(_)
Flatten(elements) == IF elements = <<>> THEN <<>> ELSE Head(elements) \o Flatten(Tail(elements))
Zeros(n) == Vec([k \in 1..n |-> 0])

\* new <kind>(), new <kind>(length), new <kind>([...])
construct_view(js, kind, of) ==
  LET data == CASE of.x = "nothing" -> <<>>
                [] of.x = "length" -> Zeros(of.length * byte_width(kind))
                [] of.x = "array" -> Flatten(of.elements)
      buffer == Allocated(js, [t |-> "ArrayBuffer", data |-> data, max_byte_length |-> None])
  IN IF kind = "DataView" THEN Evaluated(Thrown(js, "TypeError"), Undefined)
     ELSE Allocated(buffer.js,
                    [t |-> "ArrayBufferView", kind |-> kind, buffer |-> buffer.v.index,
                     byte_offset |-> 0, length |-> Len(data) \div byte_width(kind),
                     is_length_tracking |-> FALSE, is_backed_by_rab |-> FALSE])
\* new <kind>(v<i>.buffer, byte_offset, length)
construct_view_on(js, kind, i, arguments) ==
  LET named == js.env[i]
      view == open(js.store, named.index)
      buffer == open(js.store, view.buffer)
      byte_offset == IF arguments = <<>> THEN 0 ELSE arguments[1]
      length == IF Len(arguments) = 2 THEN arguments[2]
                ELSE (Len(buffer.data) - byte_offset) \div byte_width(kind)
  IN IF i \notin DOMAIN js.env THEN Evaluated(Thrown(js, "ReferenceError"), Undefined)
     ELSE IF named.t # "HeapReference" \/ view.t # "ArrayBufferView"
     THEN Evaluated(Thrown(js, "TypeError"), Undefined)
     ELSE Allocated(js, [t |-> "ArrayBufferView", kind |-> kind, buffer |-> view.buffer,
                         byte_offset |-> byte_offset, length |-> length,
                         is_length_tracking |-> buffer.max_byte_length.some
                                                  /\ Len(arguments) < 2,
                         is_backed_by_rab |-> buffer.max_byte_length.some])

\* Map.prototype.set and Set.prototype.add
map_set(entries, key, value) ==
  IF \E k \in 1..Len(entries) : entries[k][1] = key
  THEN Vec([k \in 1..Len(entries) |->
          IF entries[k][1] = key THEN <<key, value>> ELSE entries[k]])
  ELSE Append(entries, <<key, value>>)
set_add(values, value) ==
  IF \E k \in 1..Len(values) : values[k] = value THEN values ELSE Append(values, value)
RECURSIVE map_of(_, _), set_of(_, _)
map_of(entries, built) ==
  IF entries = <<>> THEN built
  ELSE map_of(Tail(entries), map_set(built, Head(entries)[1], Head(entries)[2]))
set_of(values, built) ==
  IF values = <<>> THEN built ELSE set_of(Tail(values), set_add(built, Head(values)))

RECURSIVE evaluate(_, _), evaluate_each(_, _, _)
\* the values of a list of expressions, evaluated from left to right
evaluate_each(js, es, values) ==
  IF es = <<>> THEN Evaluated(js, values)
  ELSE LET r == evaluate(js, Head(es))
       IN evaluate_each(r.js, Tail(es), Append(values, r.v))
evaluate(js, e) ==
  CASE e.x = "literal" -> Evaluated(js, e.value)
    [] e.x \in {Circular.x, Hole.x, Nothing.x} -> Evaluated(js, Undefined)
    [] e.x = "ident" ->
         IF e.i \in DOMAIN js.env THEN Evaluated(js, js.env[e.i])
         ELSE Evaluated(Thrown(js, "ReferenceError"), Undefined)
    [] e.x = "new" -> Allocated(js, e.value)
    [] e.x = "object" ->
         LET r == evaluate_each(js, Vec([k \in 1..Len(e.properties) |-> e.properties[k][2]]), <<>>)
         IN Allocated(r.js, [t |-> "Object",
                             properties |-> Vec([k \in 1..Len(e.properties) |->
                                               <<e.properties[k][1], r.v[k]>>])])
    [] e.x = "new Array" ->
         Allocated(js, [t |-> "SparseArray", length |-> e.length, properties |-> <<>>])
    [] e.x = "array" ->
         LET r == evaluate_each(js, e.elements, <<>>)
         IN Allocated(r.js, [t |-> "DenseArray", properties |-> <<>>,
                             elements |-> Vec([k \in 1..Len(e.elements) |->
                                             IF e.elements[k].x = Hole.x THEN None
                                             ELSE Some(r.v[k])])])
    [] e.x = "new Map" ->
         LET r == evaluate_each(js, Vec([k \in 1..(2 * Len(e.entries)) |->
                                       e.entries[(k + 1) \div 2][IF k % 2 = 1 THEN 1 ELSE 2]]),
                                <<>>)
         IN Allocated(r.js, [t |-> "Map",
                             entries |-> map_of(Vec([k \in 1..Len(e.entries) |->
                                                   <<r.v[2 * k - 1], r.v[2 * k]>>]), <<>>)])
    [] e.x = "new Set" ->
         LET r == evaluate_each(js, e.values, <<>>)
         IN Allocated(r.js, [t |-> "Set", values |-> set_of(r.v, <<>>)])
    [] e.x = "new Error" ->
         LET r == IF e.cause.some THEN evaluate(js, e.cause.v) ELSE Evaluated(js, Undefined)
         IN Allocated(r.js, [t |-> "Error", name |-> e.name, message |-> e.message,
                             stack |-> None,
                             cause |-> IF e.cause.some THEN Some(r.v) ELSE None])
    [] e.x = "new ArrayBuffer" ->
         Allocated(js, [t |-> "ArrayBuffer", data |-> Zeros(e.byte_length),
                        max_byte_length |-> e.max_byte_length])
    [] e.x = "buffer of new" ->
         Allocated(js, [t |-> "ArrayBuffer", data |-> Flatten(e.array.elements),
                        max_byte_length |-> None])
    [] e.x = "buffer of" ->
         IF e.i \notin DOMAIN js.env THEN Evaluated(Thrown(js, "ReferenceError"), Undefined)
         ELSE IF js.env[e.i].t = "HeapReference"
                 /\ open(js.store, js.env[e.i].index).t = "ArrayBufferView"
         THEN Evaluated(js, HeapReference(open(js.store, js.env[e.i].index).buffer))
         ELSE Evaluated(js, Undefined)
    [] e.x = "new view" -> construct_view(js, e.kind, e.of)
    [] e.x = "new view on" -> construct_view_on(js, e.kind, e.i, e.arguments)

\* target[key] = value
with_property(properties, key, value) ==
  IF \E k \in 1..Len(properties) : properties[k][1] = key
  THEN Vec([k \in 1..Len(properties) |->
          IF properties[k][1] = key THEN <<key, value>> ELSE properties[k]])
  ELSE Append(properties, <<key, value>>)
assigned(heap_value, key, value) ==
  CASE heap_value.t \in {"Object", "SparseArray"} ->
         [heap_value EXCEPT !.properties = with_property(@, key, value)]
    [] heap_value.t = "DenseArray" ->
         IF key.t = "I32" /\ key.v >= 0 /\ key.v < Len(heap_value.elements)
         THEN [heap_value EXCEPT !.elements[key.v + 1] = Some(value)]
         ELSE [heap_value EXCEPT !.properties = with_property(@, key, value)]
    [] heap_value.t = "Error" ->
         IF key = CauseKey THEN [heap_value EXCEPT !.cause = Some(value)]
         ELSE IF key = StackKey
         THEN [heap_value EXCEPT !.stack = IF value.t = "String" THEN Some(value.v) ELSE None]
         ELSE heap_value
    [] OTHER -> heap_value

\* one statement of the output
execute(js, statement) ==
  LET named == js.env[statement.i]
      target == open(js.store, named.index)
      key == evaluate(js, statement.key)
      value == evaluate(IF statement.op = "set" THEN key.js ELSE js, statement.e)
      bytes == Flatten(statement.array.elements)
  IN IF js.thrown # "" THEN js
     ELSE IF statement.op = "const"
     THEN [value.js EXCEPT !.env = (statement.i :> value.v) @@ @]
     ELSE IF statement.i \notin DOMAIN js.env THEN Thrown(js, "ReferenceError")
     ELSE CASE statement.op = "assign" ->
                 [value.js EXCEPT !.store[named.index + 1] =
                                    assigned(@, statement.key, value.v)]
            [] statement.op = "set" ->
                 IF target.t # "Map" THEN Thrown(js, "TypeError")
                 ELSE [value.js EXCEPT !.store[named.index + 1].entries =
                                         map_set(@, key.v, value.v)]
            [] statement.op = "add" ->
                 IF target.t # "Set" THEN Thrown(js, "TypeError")
                 ELSE [value.js EXCEPT !.store[named.index + 1].values = set_add(@, value.v)]
            [] statement.op = "fill" ->
                 IF target.t # "ArrayBuffer" THEN Thrown(js, "TypeError")
                 ELSE IF Len(bytes) > Len(target.data) THEN Thrown(js, "RangeError")
                 ELSE [js EXCEPT !.store[named.index + 1].data =
                                   bytes \o SubSeq(@, Len(bytes) + 1, Len(@))]
RECURSIVE execute_all(_, _)
execute_all(js, statements) ==
  IF statements = <<>> THEN js ELSE execute_all(execute(js, Head(statements)), Tail(statements))
\* the value of the whole output: the statements, then the root expression
executed(output) ==
  LET js == execute_all(NewScript, output.statements)
  IN IF js.thrown # "" THEN Evaluated(js, Undefined) ELSE evaluate(js, output.root)

(***************************************************************************)
(* Structural equality of two object graphs: a one-to-one correspondence   *)
(* between the heap values reachable from the two roots under which the    *)
(* corresponding values have the same kind and contents, in the same       *)
(* order, and refer to corresponding values.                               *)
(***************************************************************************)
Unreferenced(value) == IF value.t = "HeapReference" THEN [t |-> "HeapReference"] ELSE value
\* a heap value without the identity of what it refers to
Skeleton(heap_value) ==
  LET properties == Vec([k \in 1..Len(heap_value.properties) |->
                       <<heap_value.properties[k][1],
                         Unreferenced(heap_value.properties[k][2])>>])
  IN CASE heap_value.t \in {"Object", "SparseArray"} ->
            [heap_value EXCEPT !.properties = properties]
       [] heap_value.t = "DenseArray" ->
            [heap_value EXCEPT
               !.properties = properties,
               !.elements = Vec([k \in 1..Len(heap_value.elements) |->
                               IF heap_value.elements[k].some
                               THEN Some(Unreferenced(heap_value.elements[k].v))
                               ELSE None])]
       [] heap_value.t = "Map" ->
            [heap_value EXCEPT !.entries =
               Vec([k \in 1..Len(heap_value.entries) |->
                  <<Unreferenced(heap_value.entries[k][1]),
                    Unreferenced(heap_value.entries[k][2])>>])]
       [] heap_value.t = "Set" ->
            [heap_value EXCEPT !.values =
               Vec([k \in 1..Len(heap_value.values) |-> Unreferenced(heap_value.values[k])])]
       [] heap_value.t = "ArrayBufferView" -> [heap_value EXCEPT !.buffer = 0]
       [] heap_value.t = "Error" ->
            [heap_value EXCEPT !.cause = IF @.some THEN Some(Unreferenced(@.v)) ELSE None]
       [] OTHER -> heap_value
RECURSIVE Corresponds(_, _, _, _)
\* pairs: the references still to compare; met: the correspondence so far
Corresponds(left, right, pairs, met) ==
  IF pairs = <<>> THEN TRUE
  ELSE LET l == Head(pairs)[1]
           r == Head(pairs)[2]
           ls == referred_by(open(left, l))
           rs == referred_by(open(right, r))
       IN IF l \in DOMAIN met THEN met[l] = r /\ Corresponds(left, right, Tail(pairs), met)
          ELSE /\ \A x \in DOMAIN met : met[x] # r
               /\ Skeleton(open(left, l)) = Skeleton(open(right, r))
               /\ Corresponds(left, right,
                              Tail(pairs) \o Vec([k \in 1..Len(ls) |-> <<ls[k], rs[k]>>]),
                              (l :> r) @@ met)
StructurallyEqual(left_heap, left_value, right_heap, right_value) ==
  IF left_value.t = "HeapReference" /\ right_value.t = "HeapReference"
  THEN Corresponds(left_heap, right_heap, <<<<left_value.index, right_value.index>>>>, <<>>)
  ELSE left_value = right_value
(***************************************************************************)
(* The inputs of read.  Every input of at most MaxBody bytes over Alphabet *)
(* that follows a version header, every input of at most MaxHead bytes     *)
(* over HeadAlphabet, the longer inputs of Samples, and the inputs of      *)
(* DeepInputs, which nest a value about RECURSION_DEPTH_LIMIT levels deep. *)
(***************************************************************************)
MaxBody == 3
MaxHead == 3
Header == <<TagVersion, WIRE_FORMAT_VERSION>>
Alphabet ==
  {TagPadding, 1, 2, TagUndefined, TagObjectReference, TagBeginJsObject, TagEndJsObject,
   TagBeginJsSet, TagEndJsSet, TagBeginDenseJsArray, TagEndDenseJsArray, TagTheHole,
   TagError, ErrCause, ErrEnd, TagArrayBuffer, TagArrayBufferView, TagVerifyObjectCount,
   TagInt32, TagTrueObject, 129}
HeadAlphabet == {TagVersion, TagPadding, 13, 14, 15, 16, 129, TagUndefined}

Samples ==
  { <<255, 15, 95>>,                                           \* undefined
    <<255, 15, 111, 73, 2, 95, 123, 1>>,                       \* {1: undefined}
    <<255, 15, 111, 34, 1, 97, 94, 0, 123, 1>>,                \* o = {a: o}
    <<255, 15, 111, 95, 95, 123, 1>>,                          \* a key that is no key
    <<255, 15, 97, 2, 85, 1, 48, 64, 1, 2>>,                   \* [, null]
    <<255, 15, 97, 2, 64, 0, 3>>,
    <<255, 15, 65, 2, 45, 84, 34, 1, 98, 70, 36, 1, 2>>,       \* [, true] with b: false
    <<255, 15, 65, 1, 65, 0, 36, 0, 0, 36, 0, 1>>,             \* [[]]
    <<255, 15, 59, 95, 94, 0, 58, 2>>,                         \* m = Map {undefined => m}
    <<255, 15, 59, 95, 58, 1>>,
    <<255, 15, 39, 121, 94, 1, 44, 2>>,                        \* Set {b, b}
    <<255, 15, 114, 84, 109, 34, 1, 120, 115, 83, 0, 99, 94, 0, 46>>,  \* TypeError, cause itself
    <<255, 15, 114, 99, 120, 99, 121, 46>>,                    \* two causes
    <<255, 15, 66, 2, 7, 8, 86, 66, 1, 1, 0>>,                 \* Uint8Array on a buffer
    <<255, 15, 126, 1, 4, 9, 86, 63, 0, 0, 3>>,                \* DataView on a resizable buffer
    <<255, 15, 39, 66, 2, 7, 8, 94, 1, 86, 87, 0, 2, 0, 44, 2>>, \* buffer, then a view of it
    <<255, 15, 66, 2, 7, 8, 86, 66, 0, 2, 3>>,                 \* the flags of a resizable buffer
    <<255, 15, 66, 4, 1, 2, 3, 4, 86, 87, 1, 2, 0>>,           \* unaligned offset
    <<255, 15, 66, 4, 1, 2, 3, 4, 86, 87, 2, 1, 0>>,           \* unaligned length
    <<255, 15, 66, 1, 1, 86, 66, 2, 0, 0>>,
    <<255, 15, 66, 1, 1, 86, 66, 1, 1, 0>>,
    <<255, 15, 66, 0, 86, 1, 0, 0, 0>>,                        \* a view tag that is none
    <<255, 15, 66, 0, 86, 1, 1, 0, 0>>,
    <<255, 15, 66, 8, 1, 2, 3, 4, 5, 6, 7, 8, 86, 100, 4, 4, 0>>, \* Int32Array, offset 4
    <<255, 15, 126, 2, 1, 5, 5>>,
    <<255, 15, 116, 0, 86, 66, 0, 1, 0>>,                      \* a transferred buffer and a view
    <<255, 15, 116, 1>>,
    <<255, 15, 39, 116, 0, 116, 0, 44, 2>>,                    \* one transferred buffer, twice
    <<255, 15, 39, 116, 0, 116, 1, 44, 2>>,
    <<255, 15, 63, 5, 63, 0, 66, 0, 86, 66, 0, 0, 0>>,
    <<255, 15, 82, 63, 1, 34, 1, 97, 3>>,                      \* /a/gi
    <<255, 15, 82, 34, 1, 97, 64>>,                            \* the linear flag
    <<255, 15, 82, 34, 1, 97, 144, 2>>,                        \* u and v together
    <<255, 15, 82, 34, 1, 97, 128, 4>>,                        \* a bit that is no flag
    <<255, 15, 82, 34, 1, 97, 191, 1>>,                        \* dgimsuy
    <<255, 15, 82, 34, 1, 97, 175, 3>>,                        \* dgimsvy
    <<255, 15, 82, 34, 1, 97, 255, 3>>,                        \* all nine
    <<255, 15, 82, 34, 1, 97, 128, 128, 4>>,                   \* bit 16
    <<255, 15, 115, 99, 2, 97, 0>>,
    <<255, 15, 115, 99, 1, 97>>,
    <<255, 15, 115, 73, 0>>,
    <<255, 14, 90, 5, 1, 0>>,                                  \* -1n
    <<255, 15, 122, 2, 0>>,                                    \* Object(0n)
    <<255, 15, 68, 0, 0, 0, 0, 0, 0, 248, 63>>,                \* new Date(1.5)
    <<255, 15, 68, 0, 0, 0, 0, 0, 0, 240, 127>>,               \* new Date(Infinity)
    <<255, 15, 78, 0, 0, 0, 0, 0, 0, 0, 128>>,                 \* -0
    <<255, 15, 110, 0, 0, 0, 0, 0, 0, 248, 127>>,              \* Object(NaN)
    <<255, 15, 85, 255, 255, 255, 255, 7>>,                    \* 2^31 - 1
    <<255, 15, 85, 255, 255, 255, 255, 15>>,                   \* above the model's integers
    <<255, 15, 73, 255, 255, 255, 255, 7>>,
    <<255, 15, 117>>, <<255, 15, 119>>, <<255, 15, 109>>, <<255, 15, 92>>, <<255, 15, 112>>,
    <<0, 0, 255, 15, 0, 48, 0>>,
    <<255, 15, 95, 95>> }

\* the buffers and ids an embedder transfers before read
TransferBuffers == {[t |-> "ArrayBuffer", data |-> <<7>>, max_byte_length |-> None]}
MaxTransferId == 0

Idle == [pc |-> "idle"]

\* s repeated n times
Repeat(s, n) == Vec([i \in 1..(n * Len(s)) |-> s[((i - 1) % Len(s)) + 1]])

\* The ways to nest a value one level deeper: what precedes the nested value
\* and what closes the level after it.
Nests ==
  { [open |-> <<TagBeginJsSet>>,                       close |-> <<TagEndJsSet, 1>>],
    [open |-> <<TagBeginJsMap, TagUndefined>>,         close |-> <<TagEndJsMap, 2>>],
    [open |-> <<TagBeginJsObject, TagInt32, 0>>,       close |-> <<TagEndJsObject, 1>>],
    [open |-> <<TagBeginSparseJsArray, 1, TagUint32, 0>>,
     close |-> <<TagEndSparseJsArray, 1, 1>>],
    [open |-> <<TagBeginDenseJsArray, 1>>,             close |-> <<TagEndDenseJsArray, 0, 1>>],
    [open |-> <<TagError, ErrCause>>,                  close |-> <<ErrEnd>>],
    [open |-> <<TagVerifyObjectCount, 0>>,             close |-> <<>>] }

\* the depths around the limit: one below it up to MaxOver above it
MaxOver == 2
Depths == (RECURSION_DEPTH_LIMIT - 1)..(RECURSION_DEPTH_LIMIT + MaxOver)

\* undefined under n levels of nest
Nested(nest, n) ==
  Header \o Repeat(nest.open, n) \o <<TagUndefined>> \o Repeat(nest.close, n)

\* a StringObject whose string is under n levels of VerifyObjectCount
NestedString(n) ==
  Header \o <<TagStringObject>> \o Repeat(<<TagVerifyObjectCount, 0>>, n)
         \o <<TagOneByteString, 0>>

DeepInputs ==
  {Nested(nest, n) : nest \in Nests, n \in Depths} \cup {NestedString(n - 1) : n \in Depths}

\* read is given a short input
InitShort ==
  /\ \/ \E k \in 0..MaxBody : \E body \in [1..k -> Alphabet] :
          de = NewDeserializer(Header \o body)
     \/ \E k \in 0..MaxHead : \E head \in [1..k -> HeadAlphabet] :
          de = NewDeserializer(head)
     \/ \E bytes \in Samples : de = NewDeserializer(bytes)
  /\ ser = Idle
  /\ dis = Idle
  /\ heap_builder = Idle
  /\ call = Idle

\* read is given a short input or a deep one
InitDe ==
  \/ InitShort
  \/ /\ \E bytes \in DeepInputs : de = NewDeserializer(bytes)
     /\ ser = Idle
     /\ dis = Idle
     /\ heap_builder = Idle
     /\ call = Idle

TransferArrayBuffer ==
  /\ de.pc = "new"
  /\ \E id \in 0..MaxTransferId, ab \in TransferBuffers :
       /\ id \notin DOMAIN de.transfer_map
       /\ de' = transfer_array_buffer(de, id, ab)
  /\ UNCHANGED <<ser, dis, heap_builder, call>>

Read == de.pc = "new" /\ de' = Tick(read(de)) /\ UNCHANGED <<ser, dis, heap_builder, call>>

ReadObject == de.pc = "call" /\ de' = Tick(read_object(de)) /\ UNCHANGED <<ser, dis, heap_builder, call>>

ReadObjectTail == de.pc = "tail" /\ de' = Tick(read_object_tail(de)) /\ UNCHANGED <<ser, dis, heap_builder, call>>

ReadJsObjectProperties ==
  /\ de.pc = "loop" /\ Top(de).fn = "read_js_object_properties"
  /\ de' = Tick(read_js_object_properties(de))
  /\ UNCHANGED <<ser, dis, heap_builder, call>>

ReadDenseJsArray ==
  /\ de.pc = "loop" /\ Top(de).fn = "read_dense_js_array"
  /\ de' = Tick(read_dense_js_array(de))
  /\ UNCHANGED <<ser, dis, heap_builder, call>>

ReadJsMap ==
  /\ de.pc = "loop" /\ Top(de).fn = "read_js_map"
  /\ de' = Tick(read_js_map(de))
  /\ UNCHANGED <<ser, dis, heap_builder, call>>

ReadJsSet ==
  /\ de.pc = "loop" /\ Top(de).fn = "read_js_set"
  /\ de' = Tick(read_js_set(de))
  /\ UNCHANGED <<ser, dis, heap_builder, call>>

ReadJsError ==
  /\ de.pc = "loop" /\ Top(de).fn = "read_js_error"
  /\ de' = Tick(read_js_error(de))
  /\ UNCHANGED <<ser, dis, heap_builder, call>>

ReadStringValue ==
  /\ de.pc = "string"
  /\ de' = Tick(read_string_value(de))
  /\ UNCHANGED <<ser, dis, heap_builder, call>>

ResumeReadStringValue ==
  /\ de.pc = "string_return" /\ Top(de).fn = "read_string_value"
  /\ de' = Tick(resume_read_string_value(de))
  /\ UNCHANGED <<ser, dis, heap_builder, call>>

ResumeStringObject ==
  /\ de.pc = "string_return" /\ Top(de).fn = "read_object_internal"
  /\ Top(de).arm = "StringObject"
  /\ de' = Tick(resume_string_object(de))
  /\ UNCHANGED <<ser, dis, heap_builder, call>>

ResumeReadRegExp ==
  /\ de.pc = "string_return" /\ Top(de).fn = "read_object_internal"
  /\ Top(de).arm = "RegExp"
  /\ de' = Tick(resume_read_regexp(de))
  /\ UNCHANGED <<ser, dis, heap_builder, call>>

ResumeErrorString ==
  /\ de.pc = "string_return" /\ Top(de).fn = "read_js_error"
  /\ de' = Tick(resume_error_string(de))
  /\ UNCHANGED <<ser, dis, heap_builder, call>>

ResumeReadJsObjectProperties ==
  /\ de.pc = "resume" /\ Top(de).fn = "read_js_object_properties"
  /\ de' = Tick(resume_read_js_object_properties(de))
  /\ UNCHANGED <<ser, dis, heap_builder, call>>

ResumeReadDenseJsArray ==
  /\ de.pc = "resume" /\ Top(de).fn = "read_dense_js_array"
  /\ de' = Tick(resume_read_dense_js_array(de))
  /\ UNCHANGED <<ser, dis, heap_builder, call>>

ResumeReadJsMap ==
  /\ de.pc = "resume" /\ Top(de).fn = "read_js_map"
  /\ de' = Tick(resume_read_js_map(de))
  /\ UNCHANGED <<ser, dis, heap_builder, call>>

ResumeReadJsSet ==
  /\ de.pc = "resume" /\ Top(de).fn = "read_js_set"
  /\ de' = Tick(resume_read_js_set(de))
  /\ UNCHANGED <<ser, dis, heap_builder, call>>

ResumeReadJsError ==
  /\ de.pc = "resume" /\ Top(de).fn = "read_js_error"
  /\ de' = Tick(resume_read_js_error(de))
  /\ UNCHANGED <<ser, dis, heap_builder, call>>

ResumeReadObjectInternal ==
  /\ de.pc = "resume" /\ Top(de).fn = "read_object_internal"
  /\ de' = Tick(resume_read_object_internal(de))
  /\ UNCHANGED <<ser, dis, heap_builder, call>>

ResumeRead ==
  /\ de.pc = "resume" /\ Top(de).fn = "read"
  /\ de' = Tick(resume_read(de))
  /\ UNCHANGED <<ser, dis, heap_builder, call>>

NextDe ==
  \/ TransferArrayBuffer
  \/ Read
  \/ ReadObject
  \/ ReadObjectTail
  \/ ReadJsObjectProperties
  \/ ReadDenseJsArray
  \/ ReadJsMap
  \/ ReadJsSet
  \/ ReadJsError
  \/ ReadStringValue
  \/ ResumeReadStringValue
  \/ ResumeStringObject
  \/ ResumeReadRegExp
  \/ ResumeErrorString
  \/ ResumeReadJsObjectProperties
  \/ ResumeReadDenseJsArray
  \/ ResumeReadJsMap
  \/ ResumeReadJsSet
  \/ ResumeReadJsError
  \/ ResumeReadObjectInternal
  \/ ResumeRead

SpecDe == InitDe /\ [][NextDe]_vars

\* read of the short inputs
SpecShort == InitShort /\ [][NextDe]_vars


(***************************************************************************)
(* Properties of ValueDeserializer::read.                                  *)
(***************************************************************************)
Done == de.pc = "done"
Succeeded == Done /\ de.result.t = "Ok"
Failed(kind) == Done /\ de.result.t = "Err" /\ de.result.kind = kind

\* C4: when read returns Ok, no byte of the input remains unread after the
\* top-level value (and the view glued to it): trailing bytes are an error.
TrailingBytesAreAnError == Succeeded => de.position = Len(de.bytes)

\* The cursor is within the input, and read returns Ok or a ParseError that is
\* no panic.  (A varint of 2^31 or more ends a run as "Unmodelled": the model
\* says nothing of the inputs that hold one.)
WithinInput == de.position <= Len(de.bytes)
ReturnsAResult ==
  Done => /\ de.result.t \in {"Ok", "Err"}
          /\ de.result.t = "Err" => de.result.kind \notin PanicKinds

ContainerFns ==
  {"read_js_object_properties", "read_dense_js_array", "read_js_map", "read_js_set",
   "read_js_error"}

\* A step of NextDe other than TransferArrayBuffer can be taken: the guard of
\* one of them holds.
CanStep ==
  \/ de.pc \in {"new", "call", "tail", "string"}
  \/ /\ de.pc = "loop"
     /\ de.stack # <<>> /\ Top(de).fn \in ContainerFns
  \/ /\ de.pc = "resume"
     /\ de.stack # <<>> /\ Top(de).fn \in ContainerFns \cup {"read", "read_object_internal"}
  \/ /\ de.pc = "string_return"
     /\ de.stack # <<>>
     /\ \/ Top(de).fn \in {"read_string_value", "read_js_error"}
        \/ Top(de).fn = "read_object_internal" /\ Top(de).arm \in {"StringObject", "RegExp"}

\* read goes on until it returns, and returns within four steps for a
\* byte of input, and one step more to begin with and to end with.
Terminates ==
  /\ Done \/ CanStep
  /\ de.steps <= 4 * Len(de.bytes) + 2

\* C3: for every byte string read terminates and returns Ok or a ParseError;
\* it never panics (no failed assertion in the heap builder, no underflow of
\* the error position, no index out of range) and the cursor never exceeds
\* the length of the input.
ParserRobustness == WithinInput /\ ReturnsAResult /\ Terminates

\* read has failed at the end of the input inside a nested value
ParserRobustnessWitness ==
  /\ Failed("UnexpectedEof")
  /\ de.position = Len(de.bytes)
  /\ Len(de.stack) > 2

\* The depth counter counts the read_object and nested read_string_value
\* activations that are live: every frame above the frame of read is one, and
\* at "tail" the activation that returns is still counted.
DepthCounter ==
  /\ de.pc = "new" => de.recursion_depth = 0
  /\ de.pc \in {"call", "loop", "resume", "string", "string_return"}
       => de.recursion_depth = Len(de.stack) - 1
  /\ de.pc = "tail" => de.recursion_depth = Len(de.stack)
  /\ Succeeded => de.recursion_depth = 0

\* A value more than RECURSION_DEPTH_LIMIT levels deep is not read: read fails
\* with TooDeeplyNested where it is, and nothing else changes.
DepthCap ==
  de.pc \in {"call", "string"} /\ de.recursion_depth > RECURSION_DEPTH_LIMIT
    => /\ de'.pc = "done"
       /\ de'.result.t = "Err" /\ de'.result.kind = "TooDeeplyNested"
       /\ de'.position = de.position
       /\ de'.values = de.values
       /\ de'.expect = de.expect

\* An input that nests a value n levels deep fails with TooDeeplyNested when
\* n is more than RECURSION_DEPTH_LIMIT, and is read when it is not.
DeepInputsFail ==
  Done /\ Len(de.bytes) > RECURSION_DEPTH_LIMIT =>
    \A n \in Depths :
      (de.bytes = NestedString(n - 1) \/ \E nest \in Nests : de.bytes = Nested(nest, n))
        => IF n > RECURSION_DEPTH_LIMIT THEN Failed("TooDeeplyNested") ELSE Succeeded

\* C5: the depth counter is incremented around every value read and
\* decremented on return, and read fails with TooDeeplyNested for every input
\* in which a value is nested more than 256 levels deep, before that value is
\* read.
DepthLimit == []DepthCounter /\ [][DepthCap]_vars /\ []DeepInputsFail

\* read has failed with TooDeeplyNested under RECURSION_DEPTH_LIMIT + 1 live
\* activations
DepthLimitWitness ==
  /\ Failed("TooDeeplyNested")
  /\ Len(de.stack) = RECURSION_DEPTH_LIMIT + 2
  /\ de.recursion_depth = RECURSION_DEPTH_LIMIT + 1

\* The slot of every container being read is reserved and not yet filled.
SlotsReserved ==
  \A i \in 1..Len(de.stack) :
    de.stack[i].fn \in ContainerFns
      => /\ de.stack[i].reference < Len(de.values)
         /\ ~de.values[de.stack[i].reference + 1].some

\* The slot of a container is filled when the container has been read.
SlotFilled ==
  de.pc = "loop" /\ de'.pc = "tail"
    => /\ de'.values[Top(de).reference + 1].some
       /\ de'.ret = HeapReference(Top(de).reference)

\* the index an ObjectReference at the cursor holds, if the value there is one
ReferenceAtCursor ==
  Bind(read_byte(de.bytes, skip_padding(de.bytes, de.position)), LAMBDA tag :
    IF tag.value = TagObjectReference THEN read_varint(de.bytes, tag.position)
    ELSE Err("NoReference", <<>>, tag.position, tag.position))

\* An ObjectReference with index k resolves iff k is smaller than the number
\* of slots reserved so far, and fails with InvalidObjectReference(k) if not.
ReferenceResolves ==
  /\ de.pc = "call" /\ de.recursion_depth <= RECURSION_DEPTH_LIMIT
  /\ ReferenceAtCursor.ok
  => IF ReferenceAtCursor.value < Len(de.values)
     THEN de'.pc = "tail" /\ de'.ret = HeapReference(ReferenceAtCursor.value)
     ELSE /\ de'.pc = "done" /\ de'.result.t = "Err"
          /\ de'.result.kind = "InvalidObjectReference"
          /\ de'.result.info = <<ReferenceAtCursor.value>>

\* C10: during read the slot of every container is reserved before its
\* children are read and filled after; an ObjectReference with index k
\* resolves iff k is smaller than the number of slots reserved so far, the
\* slots of the enclosing containers included, and fails with
\* InvalidObjectReference(k) otherwise.
ReserveBeforeChildren ==
  []SlotsReserved /\ [][SlotFilled]_vars /\ [][ReferenceResolves]_vars

\* a reference to a container that is still being read has resolved
ReserveBeforeChildrenWitness ==
  /\ de.pc = "tail"
  /\ de.ret.t = "HeapReference"
  /\ \E i \in 1..Len(de.stack) :
       de.stack[i].fn \in ContainerFns /\ de.stack[i].reference = de.ret.index

\* the most Padding bytes inserted at one position
MaxPadding == 2

\* bytes with n Padding bytes inserted after its first i bytes
Padded(bytes, i, n) ==
  SubSeq(bytes, 1, i) \o Repeat(<<TagPadding>>, n) \o SubSeq(bytes, i + 1, Len(bytes))

\* the result of read, given what this read was given, on the input with n
\* Padding bytes inserted at i
PaddedResult(i, n) ==
  Run([NewDeserializer(Padded(de.bytes, i, n)) EXCEPT !.transfer_map = de.given]).result

\* the same value and heap, or the same kind of error
SameResult(a, b) ==
  /\ a.t = b.t
  /\ a.t = "Ok" => a.value = b.value /\ a.heap = b.heap
  /\ a.t = "Err" => a.kind = b.kind

MaxHeap == 2
TwoByteA == [enc |-> "TwoByte", data |-> <<97>>]
OneByteB == [enc |-> "OneByte", data |-> <<98>>]

\* the sequence of F(x) for x in seq, and of F(x, y) for x and y in seq
Each(seq, F(_)) == Vec([i \in 1..Len(seq) |-> F(seq[i])])
EachPair(seq, F(_, _)) ==
  Vec([k \in 1..(Len(seq) * Len(seq)) |->
     F(seq[((k - 1) \div Len(seq)) + 1], seq[((k - 1) % Len(seq)) + 1])])

Refs == Vec([i \in 1..(MaxHeap + 1) |-> HeapReference(i - 1)])
ChildValues == <<Undefined>> \o Refs
SerRoots == Refs \o <<String(TwoByteA)>>
SetValues ==
  <<[t |-> "Set", values |-> <<>>]>>
  \o Each(ChildValues, LAMBDA a : [t |-> "Set", values |-> <<a>>])
  \o Each(ChildValues, LAMBDA a : [t |-> "Set", values |-> <<HeapReference(1), a>>])
ObjectValues ==
  <<[t |-> "Object", properties |-> <<>>],
    [t |-> "Object", properties |-> << <<String(TwoByteA), HeapReference(0)>> >>]>>
  \o Each(Refs, LAMBDA a : [t |-> "Object", properties |-> << <<I32(0), a>> >>])
ArrayValues ==
  <<[t |-> "DenseArray", elements |-> <<None>>, properties |-> <<>>],
    [t |-> "DenseArray", elements |-> <<Some(HeapReference(1))>>,
     properties |-> << <<String(OneByteB), HeapReference(0)>> >>],
    [t |-> "SparseArray", length |-> 1,
     properties |-> << <<U32(0), HeapReference(0)>> >>]>>
MapValues ==
  <<[t |-> "Map", entries |-> << <<I32(-1), HeapReference(1)>> >>],
    [t |-> "Map", entries |-> << <<HeapReference(0), HeapReference(0)>> >>],
    [t |-> "Map", entries |-> << <<HeapReference(1), HeapReference(0)>> >>]>>
ErrorValues ==
  <<[t |-> "Error", name |-> "TypeError", message |-> Some(TwoByteA),
     stack |-> Some(OneByteB), cause |-> Some(HeapReference(0))],
    [t |-> "Error", name |-> "Error", message |-> None, stack |-> None,
     cause |-> Some(HeapReference(1))]>>
BufferValues ==
  <<[t |-> "ArrayBuffer", data |-> <<>>, max_byte_length |-> None],
    [t |-> "ArrayBuffer", data |-> <<7, 8>>, max_byte_length |-> Some(4)]>>
View(kind, buffer, length) ==
  [t |-> "ArrayBufferView", kind |-> kind, buffer |-> buffer, byte_offset |-> 0,
   length |-> length, is_length_tracking |-> FALSE, is_backed_by_rab |-> FALSE]
ViewValues ==
  Each(Refs, LAMBDA r : View("Uint8Array", r.index, 0))
  \o <<View("Uint16Array", 0, 1)>>
LeafValues ==
  <<StringObject(TwoByteA), [t |-> "RegExp", pattern |-> TwoByteA, flags |-> 1],
    [t |-> "Date", time_since_epoch |-> F64Zero]>>
HeapValues ==
  SetValues \o ObjectValues \o ArrayValues \o MapValues \o ErrorValues
  \o BufferValues \o ViewValues \o LeafValues

\* the buffer of every view is an ArrayBuffer or dangles
ViewsOnBuffers(heap) ==
  \A i \in 1..Len(heap) :
    heap[i].t = "ArrayBufferView" /\ heap[i].buffer < Len(heap)
      => heap[heap[i].buffer + 1].t = "ArrayBuffer"

\* the heap of the values that choice picks of HeapValues
HeapOf(choice) == Vec([i \in 1..Len(choice) |-> HeapValues[choice[i]]])

\* Larger heaps: a buffer and its view met in each order and met again, a
\* cycle through three containers, values nobody refers to.
ResizableBuffer == [t |-> "ArrayBuffer", data |-> <<7, 8>>, max_byte_length |-> Some(4)]
SetOf(values) == [t |-> "Set", values |-> values]
SampleHeaps ==
  << [heap |-> <<SetOf(<<HeapReference(1), HeapReference(2), HeapReference(2)>>),
                 ResizableBuffer, View("Uint8Array", 1, 2)>>,
      value |-> HeapReference(0)],
     [heap |-> <<SetOf(<<HeapReference(2), HeapReference(1), HeapReference(2)>>),
                 ResizableBuffer, View("Uint16Array", 1, 1)>>,
      value |-> HeapReference(0)],
     [heap |-> <<ResizableBuffer, View("Uint8Array", 0, 1),
                 SetOf(<<HeapReference(1), HeapReference(1), HeapReference(0)>>)>>,
      value |-> HeapReference(2)],
     [heap |-> <<[t |-> "Object", properties |-> << <<String(OneByteB), HeapReference(1)>> >>],
                 [t |-> "Map", entries |-> << <<HeapReference(0), HeapReference(2)>> >>],
                 [t |-> "Error", name |-> "RangeError", message |-> None,
                  stack |-> Some(TwoByteA), cause |-> Some(HeapReference(0))]>>,
      value |-> HeapReference(0)],
     [heap |-> <<BooleanObject(FALSE), NumberObject(F64NaN),
                 BigIntObject([sign |-> "Minus", mag |-> <<1, 1>>]),
                 SetOf(<<HeapReference(2), Double(F64Zero), BigIntValue([sign |-> "NoSign", mag |-> <<>>]),
                         Bool(TRUE), Null, U32(300)>>)>>,
      value |-> HeapReference(3)] >>

InitSer ==
  /\ \/ \E n \in 0..MaxHeap : \E choice \in [1..n -> 1..Len(HeapValues)] :
          \E root \in 1..Len(SerRoots) :
            /\ ViewsOnBuffers(HeapOf(choice))
            /\ ser = NewSerializer(HeapOf(choice), SerRoots[root])
     \/ \E k \in 1..Len(SampleHeaps) :
          ser = NewSerializer(SampleHeaps[k].heap, SampleHeaps[k].value)
  /\ de = Idle
  /\ dis = Idle
  /\ heap_builder = Idle
  /\ call = Idle

Finish ==
  /\ ser.pc = "new"
  /\ ser' = Finished(finish(ser))
  /\ UNCHANGED <<de, dis, heap_builder, call>>
WriteValue ==
  /\ ser.pc = "run" /\ Top(ser).op = "write_value"
  /\ ser' = Finished(write_value(ser))
  /\ UNCHANGED <<de, dis, heap_builder, call>>
WriteHeapReference ==
  /\ ser.pc = "run" /\ Top(ser).op = "write_heap_reference"
  /\ ser' = Finished(write_heap_reference(ser))
  /\ UNCHANGED <<de, dis, heap_builder, call>>
WriteHeapValueInner ==
  /\ ser.pc = "run" /\ Top(ser).op = "write_heap_value_inner"
  /\ ser' = Finished(write_heap_value_inner(ser))
  /\ UNCHANGED <<de, dis, heap_builder, call>>
WriteObjectProperties ==
  /\ ser.pc = "run" /\ Top(ser).op = "write_object_properties"
  /\ ser' = Finished(write_object_properties(ser))
  /\ UNCHANGED <<de, dis, heap_builder, call>>
WriteSparseArray ==
  /\ ser.pc = "run" /\ Top(ser).op = "write_sparse_array"
  /\ ser' = Finished(write_sparse_array(ser))
  /\ UNCHANGED <<de, dis, heap_builder, call>>
WriteDenseArray ==
  /\ ser.pc = "run" /\ Top(ser).op = "write_dense_array"
  /\ ser' = Finished(write_dense_array(ser))
  /\ UNCHANGED <<de, dis, heap_builder, call>>
WriteMap ==
  /\ ser.pc = "run" /\ Top(ser).op = "write_map"
  /\ ser' = Finished(write_map(ser))
  /\ UNCHANGED <<de, dis, heap_builder, call>>
WriteSet ==
  /\ ser.pc = "run" /\ Top(ser).op = "write_set"
  /\ ser' = Finished(write_set(ser))
  /\ UNCHANGED <<de, dis, heap_builder, call>>
WriteError ==
  /\ ser.pc = "run" /\ Top(ser).op = "write_error"
  /\ ser' = Finished(write_error(ser))
  /\ UNCHANGED <<de, dis, heap_builder, call>>

NextSer ==
  \/ Finish \/ WriteValue \/ WriteHeapReference \/ WriteHeapValueInner
  \/ WriteObjectProperties \/ WriteSparseArray \/ WriteDenseArray
  \/ WriteMap \/ WriteSet \/ WriteError

SpecSer == InitSer /\ [][NextSer]_vars

(***************************************************************************)
(* Properties of the serializer.                                           *)
(***************************************************************************)
SerOk == ser.pc = "done" /\ ser.result.t = "Ok"

\* the heap indices a value and a heap value refer to
ValueRefs(value) == IF value.t = "HeapReference" THEN {value.index} ELSE {}
PairRefs(pairs) ==
  UNION {ValueRefs(pairs[i][2]) : i \in 1..Len(pairs)}
HeapValueRefs(heap_value) ==
  IF heap_value.t \in {"Object", "SparseArray"} THEN PairRefs(heap_value.properties)
  ELSE IF heap_value.t = "DenseArray"
  THEN PairRefs(heap_value.properties)
       \cup UNION {IF heap_value.elements[i].some
                   THEN ValueRefs(heap_value.elements[i].v) ELSE {} :
                   i \in 1..Len(heap_value.elements)}
  ELSE IF heap_value.t = "Map"
  THEN PairRefs(heap_value.entries)
       \cup UNION {ValueRefs(heap_value.entries[i][1]) : i \in 1..Len(heap_value.entries)}
  ELSE IF heap_value.t = "Set"
  THEN UNION {ValueRefs(heap_value.values[i]) : i \in 1..Len(heap_value.values)}
  ELSE IF heap_value.t = "ArrayBufferView" THEN {heap_value.buffer}
  ELSE IF heap_value.t = "Error" /\ heap_value.cause.some
  THEN ValueRefs(heap_value.cause.v)
  ELSE {}

\* the indices of heap reachable from the indices in seen
RECURSIVE Reachable(_, _)
Reachable(heap, seen) ==
  LET more == UNION {IF i < Len(heap) THEN HeapValueRefs(heap[i + 1]) ELSE {} : i \in seen}
  IN IF more \subseteq seen THEN seen ELSE Reachable(heap, seen \cup more)

\* the tag that starts the full encoding of a heap value
BeginTag(heap_value) ==
  IF heap_value.t = "BooleanObject"
  THEN (IF heap_value.v THEN TagTrueObject ELSE TagFalseObject)
  ELSE IF heap_value.t = "NumberObject" THEN TagNumberObject
  ELSE IF heap_value.t = "BigIntObject" THEN TagBigIntObject
  ELSE IF heap_value.t = "StringObject" THEN TagStringObject
  ELSE IF heap_value.t = "RegExp" THEN TagRegExp
  ELSE IF heap_value.t = "Date" THEN TagDate
  ELSE IF heap_value.t = "Object" THEN TagBeginJsObject
  ELSE IF heap_value.t = "SparseArray" THEN TagBeginSparseJsArray
  ELSE IF heap_value.t = "DenseArray" THEN TagBeginDenseJsArray
  ELSE IF heap_value.t = "Map" THEN TagBeginJsMap
  ELSE IF heap_value.t = "Set" THEN TagBeginJsSet
  ELSE IF heap_value.t = "ArrayBuffer"
  THEN (IF heap_value.max_byte_length.some THEN TagResizableArrayBuffer ELSE TagArrayBuffer)
  ELSE IF heap_value.t = "ArrayBufferView" THEN TagArrayBufferView
  ELSE TagError

Written == ser.pc \in {"run", "done"}
FullEvents(index) ==
  {k \in 1..Len(ser.log) : ser.log[k].full /\ ser.log[k].index = index}
Rank(k) == Cardinality({j \in 1..(k - 1) : ser.log[j].full})
\* the bytes of the back-reference with this ID start at offset at of data
BackReferenceAt(at, id) ==
  /\ at + 1 + Len(write_varint(id)) <= Len(ser.data)
  /\ SubSeq(ser.data, at + 1, at + 1 + Len(write_varint(id)))
       = <<TagObjectReference>> \o write_varint(id)

\* when finish returns bytes, each reachable heap value was written in full
\* once and no other heap value was written
WrittenOnce ==
  SerOk =>
    \A i \in 0..(Len(ser.heap) - 1) :
      Cardinality(FullEvents(i))
        = IF i \in Reachable(ser.heap, ValueRefs(ser.value)) THEN 1 ELSE 0
\* what is not written in full is ObjectReference and the ID of the value
\* written in full before
LaterOccurrences ==
  Written =>
    \A k \in 1..Len(ser.log) :
      ~ser.log[k].full =>
        /\ \E j \in 1..(k - 1) :
             /\ ser.log[j].full
             /\ ser.log[j].index = ser.log[k].index
             /\ ser.log[j].id = ser.log[k].id
        /\ BackReferenceAt(ser.log[k].at, ser.log[k].id)
\* the ID is the rank among the full encodings, which start with the tag
IdIsRank ==
  Written =>
    \A k \in 1..Len(ser.log) :
      ser.log[k].full =>
        /\ ser.log[k].id = Rank(k)
        /\ ser.log[k].at < Len(ser.data)
        /\ ser.data[ser.log[k].at + 1] = BeginTag(ser.heap[ser.log[k].index + 1])

\* C6: in the bytes that finish returns every heap value reachable from the
\* root is written in full exactly once, every other occurrence is
\* ObjectReference followed by its ID, and the ID of a heap value is the
\* zero-based rank of its full encoding among the full encodings.
BackReferenceUniqueness == WrittenOnce /\ LaterOccurrences /\ IdIsRank
\* finish has returned bytes that hold a back-reference to the ID 1
BackReferenceUniquenessWitness ==
  /\ SerOk
  /\ \E k \in 1..Len(ser.log) : ~ser.log[k].full /\ ser.log[k].id = 1

IsView(index) ==
  index < Len(ser.heap) /\ ser.heap[index + 1].t = "ArrayBufferView"
\* every full encoding of a view starts where the encoding of its buffer
\* ends, and that is the buffer in full at its first occurrence or a
\* back-reference with the buffer's ID
ViewAdjacent ==
  Written =>
    \A k \in 1..Len(ser.log) :
      ser.log[k].full /\ IsView(ser.log[k].index) =>
        /\ k > 1
        /\ LET view == ser.heap[ser.log[k].index + 1]
               before == ser.log[k - 1]
               bytes == SubSeq(ser.data, before.at + 1, ser.log[k].at)
           IN /\ before.index = view.buffer
              /\ ser.heap[view.buffer + 1].t = "ArrayBuffer"
              /\ IF before.full
                 THEN /\ bytes = write_array_buffer(ser.heap[view.buffer + 1])
                      /\ FullEvents(view.buffer) = {k - 1}
                      /\ before.id = Rank(k - 1)
                 ELSE /\ bytes = <<TagObjectReference>> \o write_varint(before.id)
                      /\ \E j \in FullEvents(view.buffer) : ser.log[j].id = before.id
\* write_heap_reference of a view that has an ID writes nothing and leaves
\* the view to write_heap_value_inner, which writes its back-reference
KnownViewAlone ==
  ser.pc = "run" /\ Top(ser).op \in {"write_heap_reference", "write_heap_value_inner"}
  /\ IsView(Top(ser).reference) /\ Top(ser).reference \in DOMAIN ser.id_map
  => IF Top(ser).op = "write_heap_reference"
     THEN /\ ser'.data = ser.data
          /\ ser'.log = ser.log
          /\ ser'.stack = [ser.stack EXCEPT ![Len(ser.stack)] =
                             [op |-> "write_heap_value_inner",
                              reference |-> Top(ser).reference]]
     ELSE ser'.data = ser.data \o <<TagObjectReference>>
                      \o write_varint(ser.id_map[Top(ser).reference])

\* C7: the full encoding of every ArrayBufferView is immediately preceded by
\* its backing buffer, in full at the buffer's first occurrence (which gives
\* the buffer its ID) or as an ObjectReference with the buffer's ID; a view
\* that has an ID is written as a back-reference and no buffer before it.
ViewAdjacency == []ViewAdjacent /\ [][KnownViewAlone]_vars
\* finish has returned bytes in which a view in full follows a
\* back-reference to its buffer, and a view is written as a back-reference
ViewAdjacencyWitness ==
  /\ SerOk
  /\ \E k \in 2..Len(ser.log) :
       ser.log[k].full /\ IsView(ser.log[k].index) /\ ~ser.log[k - 1].full
  /\ \E k \in 1..Len(ser.log) : ~ser.log[k].full /\ IsView(ser.log[k].index)

(***************************************************************************)
(* The round trip: what read returns for the bytes that finish returned.   *)
(***************************************************************************)
\* a view lies inside its buffer, aligned, and has the flags only on a
\* resizable buffer
WellFormedView(heap, view) ==
  /\ view.buffer < Len(heap)
  /\ heap[view.buffer + 1].t = "ArrayBuffer"
  /\ view.byte_offset % byte_width(view.kind) = 0
  /\ view.byte_offset + view.length * byte_width(view.kind)
       <= Len(heap[view.buffer + 1].data)
  /\ (view.is_backed_by_rab \/ view.is_length_tracking
        => heap[view.buffer + 1].max_byte_length.some)

\* every reference is to a value of the heap, and every heap value is one
\* that its constructors and V8 produce
WellFormed(heap, value) ==
  /\ \A i \in ValueRefs(value) : i < Len(heap)
  /\ \A k \in 1..Len(heap) :
       /\ \A i \in HeapValueRefs(heap[k]) : i < Len(heap)
       /\ heap[k].t = "ArrayBufferView" => WellFormedView(heap, heap[k])
       /\ heap[k].t = "RegExp" => accepted_flags(heap[k].flags).some
       /\ heap[k].t = "Date" => heap[k] = Date_new(heap[k].time_since_epoch)
       /\ heap[k].t = "ArrayBuffer" /\ heap[k].max_byte_length.some
            => Len(heap[k].data) <= heap[k].max_byte_length.v

Deserialized == Run(NewDeserializer(ser.result.data))
RoundTripOf(d) ==
  /\ d.result.t = "Ok"
  /\ value_eq(ser.value, ser.heap, d.result.value, d.result.heap).ok

\* C1: for every well-formed (Value, Heap) on which finish returns bytes,
\* read of those bytes succeeds and returns a (Value, Heap) that value_eq
\* reports equal to the original.
RoundTrip == SerOk /\ WellFormed(ser.heap, ser.value) => RoundTripOf(Deserialized)

\* The heap values lie in the heap in the order in which finish writes them
\* and all of them are written: heap index and ID agree.
InOrder ==
  /\ \A k \in 1..Len(ser.log) : ser.log[k].index = ser.log[k].id
  /\ \A i \in 0..(Len(ser.heap) - 1) : FullEvents(i) # {}
\* the round trip of the heaps that are in the order of their IDs
RoundTripInOrder ==
  SerOk /\ WellFormed(ser.heap, ser.value) /\ InOrder => RoundTripOf(Deserialized)

(***************************************************************************)
(* The inputs of display: the (Value, Heap) that read returns for the      *)
(* bytes that finish writes for a heap of up to MaxDisplayHeap values of   *)
(* DisplayHeapValues (and for the larger heaps of DisplaySamples), in each *)
(* format.  Property keys are distinct and not reordered by JavaScript.    *)
(***************************************************************************)
MaxDisplayHeap == 2
RECURSIVE finish_all(_)
finish_all(s) == IF s.pc = "done" THEN s ELSE With(SerStep(s), LAMBDA next : finish_all(next))
\* what read returns for the bytes of (heap, value)
read_back(heap, value) ==
  LET written == finish_all(NewSerializer(heap, value)).result
  IN IF written.t = "Ok" THEN Run(NewDeserializer(written.data)).result ELSE written

DisplayRefs == Vec([i \in 1..MaxDisplayHeap |-> HeapReference(i - 1)])
ViewAt(kind, buffer, byte_offset, length, flag) ==
  [t |-> "ArrayBufferView", kind |-> kind, buffer |-> buffer, byte_offset |-> byte_offset,
   length |-> length, is_length_tracking |-> flag, is_backed_by_rab |-> flag]
PlainBuffer == [t |-> "ArrayBuffer", data |-> <<7, 8>>, max_byte_length |-> None]
DisplayHeapValues ==
  <<[t |-> "Object", properties |-> <<>>],
    [t |-> "Date", time_since_epoch |-> F64Zero],
    [t |-> "Object", properties |-> << <<String(OneByteB), HeapReference(0)>>,
                                       <<String(TwoByteA), HeapReference(1)>> >>],
    [t |-> "Map", entries |-> << <<HeapReference(0), HeapReference(1)>> >>],
    [t |-> "SparseArray", length |-> 2,
     properties |-> << <<U32(0), HeapReference(0)>>, <<U32(1), I32(5)>> >>],
    PlainBuffer, ResizableBuffer,
    [t |-> "ArrayBuffer", data |-> <<0, 0>>, max_byte_length |-> None],
    ViewAt("Uint16Array", 1, 0, 1, FALSE), ViewAt("DataView", 1, 0, 2, FALSE),
    ViewAt("Uint8Array", 1, 0, 2, TRUE)>>
  \o Each(DisplayRefs, LAMBDA a : [t |-> "Object", properties |-> << <<String(OneByteB), a>> >>])
  \o Each(DisplayRefs, LAMBDA a : [t |-> "Set", values |-> <<a, I32(1)>>])
  \o Each(DisplayRefs, LAMBDA a : [t |-> "Map", entries |-> << <<I32(-1), a>> >>])
  \o Each(DisplayRefs, LAMBDA a : [t |-> "DenseArray", elements |-> <<None, Some(a)>>,
                                   properties |-> <<>>])
  \o Each(DisplayRefs, LAMBDA a : [t |-> "Error", name |-> "TypeError", message |-> Some(TwoByteA),
                                   stack |-> None, cause |-> Some(a)])
  \o Each(DisplayRefs, LAMBDA a : ViewAt("Uint8Array", a.index, 0, 2, FALSE))
  \o Each(DisplayRefs, LAMBDA a : ViewAt("Uint8Array", a.index, 1, 1, FALSE))
DisplayHeapOf(choice) == Vec([i \in 1..Len(choice) |-> DisplayHeapValues[choice[i]]])

\* a cycle through a value that no back-edge touches; a buffer and two views;
\* a sparse array in a Map that it holds; a Set holding twice an object that
\* holds the Set; a string; two views on parts of a buffer, in an array
\* (array_buffer_with_multiple_views of tests/serde.rs)
DisplaySamples ==
  << [heap |-> <<[t |-> "Object", properties |-> << <<String(OneByteB), HeapReference(1)>> >>],
                 SetOf(<<HeapReference(2)>>),
                 [t |-> "DenseArray", elements |-> <<Some(HeapReference(0))>>,
                  properties |-> << <<String(TwoByteA), HeapReference(1)>> >>]>>,
      value |-> HeapReference(0)],
     [heap |-> <<SetOf(<<HeapReference(2), HeapReference(3), HeapReference(1)>>), PlainBuffer,
                 ViewAt("Uint8Array", 1, 0, 2, FALSE), ViewAt("Uint16Array", 1, 0, 1, FALSE)>>,
      value |-> HeapReference(0)],
     [heap |-> <<[t |-> "SparseArray", length |-> 2,
                  properties |-> << <<U32(0), HeapReference(1)>>, <<U32(1), I32(5)>> >>],
                 [t |-> "Map", entries |-> << <<I32(-1), HeapReference(0)>> >>]>>,
      value |-> HeapReference(0)],
     [heap |-> <<SetOf(<<HeapReference(1), HeapReference(1)>>),
                 [t |-> "Object", properties |-> << <<String(OneByteB), HeapReference(0)>> >>]>>,
      value |-> HeapReference(0)],
     [heap |-> <<>>, value |-> String(TwoByteA)],
     [heap |-> <<[t |-> "DenseArray", properties |-> <<>>,
                  elements |-> <<Some(HeapReference(2)), Some(HeapReference(3))>>],
                 [t |-> "ArrayBuffer", data |-> <<1, 0, 2, 0, 3, 0>>, max_byte_length |-> None],
                 ViewAt("Uint16Array", 1, 2, 1, FALSE), ViewAt("Int16Array", 1, 4, 1, FALSE)>>,
      value |-> HeapReference(0)] >>

\* the heap whose i-th value is the i-th digit of code in base Len(DisplayHeapValues)
DisplayHeapCoded(n, code) ==
  DisplayHeapOf(Vec([i \in 1..n |->
    ((code \div (Len(DisplayHeapValues) ^ (i - 1))) % Len(DisplayHeapValues)) + 1]))
Returned(heap, value) ==
  LET returned == read_back(heap, value)
  IN IF ViewsOnBuffers(heap) /\ returned.t = "Ok" THEN <<returned>> ELSE <<>>
RECURSIVE ReturnedBetween(_, _, _)
ReturnedBetween(n, low, high) ==
  IF low > high THEN <<>>
  ELSE IF low = high THEN Returned(DisplayHeapCoded(n, low), HeapReference(0))
  ELSE ReturnedBetween(n, low, (low + high) \div 2)
       \o ReturnedBetween(n, ((low + high) \div 2) + 1, high)
RECURSIVE ReturnedUpTo(_)
ReturnedUpTo(n) ==
  IF n = 0 THEN <<>>
  ELSE ReturnedUpTo(n - 1) \o ReturnedBetween(n, 0, (Len(DisplayHeapValues) ^ n) - 1)
RECURSIVE ReturnedSamples(_)
ReturnedSamples(k) ==
  IF k = 0 THEN <<>>
  ELSE ReturnedSamples(k - 1) \o Returned(DisplaySamples[k].heap, DisplaySamples[k].value)
\* every (Value, Heap) that read returns for the inputs above
DisplayInputs == ReturnedUpTo(MaxDisplayHeap) \o ReturnedSamples(Len(DisplaySamples))

InitDis ==
  /\ \E format \in 1..Len(Formats) : \E k \in 1..Len(DisplayInputs) :
       dis = NewDisplayer(DisplayInputs[k].heap, DisplayInputs[k].value, Formats[format])
  /\ de = Idle
  /\ ser = Idle
  /\ heap_builder = Idle
  /\ call = Idle

DisplayDependencies ==
  /\ dis.pc = "new"
  /\ dis' = Displayed(display_dependencies(dis))
  /\ UNCHANGED <<de, ser, heap_builder, call>>
DisplayBinding ==
  /\ dis.pc = "order" /\ dis.i < Len(dis.order)
  /\ dis' = Displayed(display_binding(dis))
  /\ UNCHANGED <<de, ser, heap_builder, call>>
DisplayRoot ==
  /\ dis.pc = "order" /\ dis.i = Len(dis.order)
  /\ dis' = Displayed(display_root(dis))
  /\ UNCHANGED <<de, ser, heap_builder, call>>
NextDis == DisplayDependencies \/ DisplayBinding \/ DisplayRoot
SpecDis == InitDis /\ [][NextDis]_vars

\* C9: for every (Value, Heap) returned by read and every format, display
\* returns a string without panicking: every call of display that has ended
\* has returned its output.
DisplayReturns == dis.pc = "done" => dis.result.t = "Ok"

\* The script that display returned, executed statement by statement.
Rebuilt == executed(dis.result)

\* C2: for every (Value, Heap) produced by read and in each format, executing
\* the program that display emits rebuilds an object graph structurally equal
\* to the original: whenever display has returned its output, executing it
\* throws nothing, and its value corresponds to the original value one to
\* one, with the same kinds and contents, the same property and entry order,
\* the same sharing and the same cycles.
DisplayRebuilds ==
  dis.pc = "done" /\ dis.result.t = "Ok" =>
    /\ Rebuilt.js.thrown = ""
    /\ StructurallyEqual(dis.heap, dis.value, Rebuilt.js.store, Rebuilt.v)
(***************************************************************************)
(* Properties of the heap that read builds.                                *)
(***************************************************************************)
\* every reference held by value or by a heap value of heap is an index of heap
ReferencesWithin(heap, value) ==
  /\ \A i \in ValueRefs(value) : i < Len(heap)
  /\ \A k \in 1..Len(heap) : \A i \in HeapValueRefs(heap[k]) : i < Len(heap)

\* The heap read returns holds the value of every slot of the builder at the
\* index of the slot, and no reference leaves it.
HeapComplete ==
  Succeeded =>
    /\ Len(de.result.heap) = Len(de.values)
    /\ \A i \in 1..Len(de.values) :
         de.values[i].some /\ de.result.heap[i] = de.values[i].v
    /\ ReferencesWithin(de.result.heap, de.result.value)

\* A step reserves at most one slot, the one after the last; the reference it
\* gives is the number of slots reserved before; a filled slot never changes.
ReserveInOrder ==
  /\ Len(de'.values) \in {Len(de.values), Len(de.values) + 1}
  /\ \A i \in 1..Len(de.values) :
       de.values[i].some \/ de'.pc = "done" => de'.values[i] = de.values[i]
  /\ Len(de'.values) = Len(de.values) + 1 /\ de'.pc # "done" =>
       IF Last(de'.values).some
       THEN de'.pc \in {"tail", "resume"} /\ de'.ret = HeapReference(Len(de.values))
       ELSE Top(de').fn \in ContainerFns /\ Top(de').reference = Len(de.values)

\* HeapBuilder::build never fails in read.
BuildSucceeds == ~Failed("HeapBuildError")

\* C11: whenever read returns Ok((value, heap)), every slot of the heap is
\* populated and every HeapReference in the root value or inside a heap value
\* carries an index of that heap; the index of each heap value is the rank of
\* its reserve call during parsing, and the final build in read never fails.
HeapWellFormed == []HeapComplete /\ [][ReserveInOrder]_vars /\ []BuildSucceeds

\* read has returned a heap of two values or more, one of which refers to
\* another
HeapWellFormedWitness ==
  /\ Succeeded
  /\ Len(de.result.heap) >= 2
  /\ \E k \in 1..Len(de.result.heap) : HeapValueRefs(de.result.heap[k]) # {}

(***************************************************************************)
(* A HeapBuilder used on its own: any sequence of reserve, insert_reserved,*)
(* insert and build on the references reserve has returned.  A caller that *)
(* catches the panic of insert_reserved keeps the builder (pc stays open); *)
(* last records the call made last and what it returned.                   *)
(***************************************************************************)
MaxSlots == 3
BuilderValues == <<BooleanObject(TRUE), BooleanObject(FALSE)>>
NewHeapBuilder ==
  [values |-> <<>>, pc |-> "open", position |-> 0, result |-> [t |-> "None"],
   last |-> [op |-> "default"]]
InitHeapBuilder ==
  /\ heap_builder = NewHeapBuilder
  /\ de = Idle
  /\ ser = Idle
  /\ dis = Idle
  /\ call = Idle
Reserve ==
  /\ heap_builder.pc = "open" /\ Len(heap_builder.values) < MaxSlots
  /\ heap_builder' = [reserve(heap_builder) EXCEPT
                        !.last = [op |-> "reserve", index |-> Len(heap_builder.values)]]
  /\ UNCHANGED <<de, ser, dis, call>>
InsertReserved ==
  /\ heap_builder.pc = "open"
  /\ \E index \in 0..(Len(heap_builder.values) - 1) : \E k \in 1..Len(BuilderValues) :
       heap_builder' =
         With(insert_reserved(heap_builder, index, BuilderValues[k]), LAMBDA b :
           [b EXCEPT
              !.pc = "open", !.result = [t |-> "None"],
              !.last = [op |-> "insert_reserved", index |-> index,
                        value |-> BuilderValues[k], panic |-> b.pc = "done"]])
  /\ UNCHANGED <<de, ser, dis, call>>
Insert ==
  /\ heap_builder.pc = "open" /\ Len(heap_builder.values) < MaxSlots
  /\ \E k \in 1..Len(BuilderValues) :
       heap_builder' = [insert(heap_builder, BuilderValues[k]) EXCEPT
                          !.last = [op |-> "insert", index |-> Len(heap_builder.values),
                                    value |-> BuilderValues[k]]]
  /\ UNCHANGED <<de, ser, dis, call>>
Build ==
  /\ heap_builder.pc = "open"
  /\ heap_builder' = [heap_builder EXCEPT !.pc = "built",
                                          !.result = build(heap_builder.values),
                                          !.last = [op |-> "build"]]
  /\ UNCHANGED <<de, ser, dis, call>>
NextHeapBuilder == Reserve \/ InsertReserved \/ Insert \/ Build
SpecHeapBuilder == InitHeapBuilder /\ [][NextHeapBuilder]_vars

\* reserve returns the references 0, 1, 2, ... in the order of the calls
ReserveCounts ==
  heap_builder'.last.op \in {"reserve", "insert"}
    => /\ heap_builder'.last.index = Len(heap_builder.values)
       /\ Len(heap_builder'.values) = Len(heap_builder.values) + 1
\* the first fill of a slot stores the value; a second fill is an assertion
\* failure and leaves the slot as it was
FillOnce ==
  heap_builder'.last.op = "insert_reserved"
    => IF heap_builder.values[heap_builder'.last.index + 1].some
       THEN heap_builder'.last.panic /\ heap_builder'.values = heap_builder.values
       ELSE /\ ~heap_builder'.last.panic
            /\ heap_builder'.values =
                 [heap_builder.values EXCEPT ![heap_builder'.last.index + 1] =
                                               Some(heap_builder'.last.value)]
\* build fails iff a slot was never filled, with the lowest such index, and
\* gives the values at their indices if not
BuildReports ==
  heap_builder.pc = "built" =>
    With({i \in 1..Len(heap_builder.values) : ~heap_builder.values[i].some},
         LAMBDA unfilled :
           IF unfilled # {}
           THEN /\ ~heap_builder.result.ok
                /\ heap_builder.result.index + 1 \in unfilled
                /\ \A i \in unfilled : heap_builder.result.index + 1 <= i
           ELSE /\ heap_builder.result.ok
                /\ Len(heap_builder.result.value) = Len(heap_builder.values)
                /\ \A i \in 1..Len(heap_builder.values) :
                     heap_builder.result.value[i] = heap_builder.values[i].v)

\* C12: for any sequence of HeapBuilder operations, reserve returns
\* references with the indices 0, 1, 2, ... in call order; filling a reserved
\* slot succeeds the first time, and a second fill of the same slot is an
\* assertion failure that never overwrites the stored value; build returns an
\* error iff a reserved slot was never filled, reporting the lowest such
\* index, and otherwise a Heap holding the filled values at the same indices.
HeapBuilderContract ==
  [][ReserveCounts /\ FillOnce]_vars /\ []BuildReports

\* the id an ArrayBufferTransfer at the cursor holds, if the value there is one
TransferAtCursor ==
  Bind(read_byte(de.bytes, skip_padding(de.bytes, de.position)), LAMBDA tag :
    IF tag.value = TagArrayBufferTransfer THEN read_varint(de.bytes, tag.position)
    ELSE Err("NoTransfer", <<>>, tag.position, tag.position))
ReadsTransfer ==
  de.pc = "call" /\ de.recursion_depth <= RECURSION_DEPTH_LIMIT /\ TransferAtCursor.ok
\* Reading the tag with id i takes entry i out of the transfer map and yields
\* its buffer; with no entry i it fails with MissingTransferredArrayBuffer(i).
TransferConsumed ==
  ReadsTransfer =>
    IF TransferAtCursor.value \in DOMAIN de.transfer_map
    THEN /\ DOMAIN de'.transfer_map = DOMAIN de.transfer_map \ {TransferAtCursor.value}
         /\ \A i \in DOMAIN de'.transfer_map : de'.transfer_map[i] = de.transfer_map[i]
         /\ Len(de'.values) = Len(de.values) + 1
         /\ Last(de'.values) = Some(de.transfer_map[TransferAtCursor.value])
         /\ de'.pc = "tail" /\ de'.ret = HeapReference(Len(de.values))
    ELSE /\ de'.pc = "done" /\ de'.result.t = "Err"
         /\ de'.result.kind = "MissingTransferredArrayBuffer"
         /\ de'.result.info = <<TransferAtCursor.value>>
\* Once read has started, the entries of the transfer map are the registered
\* ones no tag has consumed: no other step touches the map.
TransferMapKept ==
  de.pc \notin {"new", "idle"} /\ ~ReadsTransfer => de'.transfer_map = de.transfer_map
TransferMapGiven ==
  de.pc \notin {"new", "idle"} => DOMAIN de.transfer_map \subseteq DOMAIN de.given

\* C13: each entry registered with transfer_array_buffer satisfies at most
\* one ArrayBufferTransfer tag: reading the tag with id i removes entry i from
\* the transfer map and yields its buffer; an ArrayBufferTransfer with an id
\* that was never registered, or that was consumed earlier in the same input,
\* makes read fail with MissingTransferredArrayBuffer(i).
TransferOnce ==
  [][TransferConsumed /\ TransferMapKept]_vars /\ []TransferMapGiven

\* a registered buffer was consumed and asked for again
TransferOnceWitness ==
  /\ Failed("MissingTransferredArrayBuffer")
  /\ de.result.info = <<0>>
  /\ 0 \in DOMAIN de.given
  /\ Len(de.values) = 2 /\ de.values[2] = Some(de.given[0])

(***************************************************************************)
(* value_eq called on two finite heaps, cyclic ones among them.            *)
(***************************************************************************)
MaxEqHeap == 2
\* the heap values of a heap with n slots
EqHeapValues(n) ==
  {BooleanObject(TRUE), [t |-> "Set", values |-> <<>>], [t |-> "Set", values |-> <<I32(1)>>]}
  \cup {[t |-> "Set", values |-> <<HeapReference(i)>>] : i \in 0..(n - 1)}
  \cup {[t |-> "Object", properties |-> <<<<String([enc |-> "OneByte", data |-> <<97>>]), HeapReference(i)>>>>] :
          i \in 0..(n - 1)}
EqInputs ==
  UNION {{[value |-> HeapReference(i), heap |-> heap] :
            i \in 0..(n - 1), heap \in [1..n -> EqHeapValues(n)]} : n \in 1..MaxEqHeap}
InitEq ==
  /\ \E left \in EqInputs, right \in EqInputs :
       call = [fn |-> "value_eq", pc |-> "called", left |-> left, right |-> right]
  /\ de = Idle
  /\ ser = Idle
  /\ dis = Idle
  /\ heap_builder = Idle
ValueEq ==
  /\ call.pc = "called"
  /\ call' = [fn |-> "value_eq", pc |-> "returned", left |-> call.left,
              right |-> call.right,
              result |-> value_eq(call.left.value, call.left.heap,
                                  call.right.value, call.right.heap)]
  /\ UNCHANGED <<de, ser, dis, heap_builder>>
NextEq == ValueEq
SpecEq == InitEq /\ [][NextEq]_vars

\* the values a heap value holds, in the order of its fields
PairValues(pairs) == Vec([i \in 1..Len(pairs) |-> pairs[i][2]])
Children(heap_value) ==
  IF heap_value.t \in {"Object", "SparseArray"} THEN PairValues(heap_value.properties)
  ELSE IF heap_value.t = "DenseArray"
  THEN Flatten(Vec([i \in 1..Len(heap_value.elements) |->
                      IF heap_value.elements[i].some THEN <<heap_value.elements[i].v>>
                      ELSE <<>>]))
       \o PairValues(heap_value.properties)
  ELSE IF heap_value.t = "Map"
  THEN Flatten(Vec([i \in 1..Len(heap_value.entries) |->
                      <<heap_value.entries[i][1], heap_value.entries[i][2]>>]))
  ELSE IF heap_value.t = "Set" THEN heap_value.values
  ELSE IF heap_value.t = "ArrayBufferView" THEN <<HeapReference(heap_value.buffer)>>
  ELSE IF heap_value.t = "Error" /\ heap_value.cause.some THEN <<heap_value.cause.v>>
  ELSE <<>>
\* a heap value with every reference it holds pointing at slot 0
Leafed(value) == IF value.t = "HeapReference" THEN HeapReference(0) ELSE value
LeafedPairs(pairs) == Vec([i \in 1..Len(pairs) |-> <<pairs[i][1], Leafed(pairs[i][2])>>])
Shape(heap_value) ==
  IF heap_value.t \in {"Object", "SparseArray"}
  THEN [heap_value EXCEPT !.properties = LeafedPairs(@)]
  ELSE IF heap_value.t = "DenseArray"
  THEN [heap_value EXCEPT
          !.properties = LeafedPairs(@),
          !.elements = Vec([i \in 1..Len(heap_value.elements) |->
                              IF heap_value.elements[i].some
                              THEN Some(Leafed(heap_value.elements[i].v))
                              ELSE heap_value.elements[i]])]
  ELSE IF heap_value.t = "Map"
  THEN [heap_value EXCEPT
          !.entries = Vec([i \in 1..Len(heap_value.entries) |->
                             <<Leafed(heap_value.entries[i][1]),
                               Leafed(heap_value.entries[i][2])>>])]
  ELSE IF heap_value.t = "Set"
  THEN [heap_value EXCEPT
          !.values = Vec([i \in 1..Len(heap_value.values) |-> Leafed(heap_value.values[i])])]
  ELSE IF heap_value.t = "ArrayBufferView" THEN [heap_value EXCEPT !.buffer = 0]
  ELSE IF heap_value.t = "Error" /\ heap_value.cause.some
  THEN [heap_value EXCEPT !.cause = Some(Leafed(heap_value.cause.v))]
  ELSE heap_value
\* a and b are the same but for the slots their references point at
SameShape(a, b) ==
  value_eq(HeapReference(0), <<Shape(a)>>, HeapReference(0), <<Shape(b)>>).ok
\* a and b of the same shape hold references in the pairs of related only
Matches(related, a, b) ==
  /\ SameShape(a, b)
  /\ \A k \in 1..Len(Children(a)) :
       Children(a)[k].t = "HeapReference"
         => <<Children(a)[k].index, Children(b)[k].index>> \in related
\* the largest bisimulation between two heaps: the pairs of slots left when
\* the pairs whose values do not match are taken out until none is
RECURSIVE Bisimulation(_, _, _)
Bisimulation(left_heap, right_heap, related) ==
  With({p \in related : Matches(related, left_heap[p[1] + 1], right_heap[p[2] + 1])},
       LAMBDA kept :
         IF kept = related THEN related ELSE Bisimulation(left_heap, right_heap, kept))
Bisimilar(left, right) ==
  IF left.value.t = "HeapReference" /\ right.value.t = "HeapReference"
  THEN <<left.value.index, right.value.index>>
         \in Bisimulation(left.heap, right.heap,
                          (0..(Len(left.heap) - 1)) \X (0..(Len(right.heap) - 1)))
  ELSE value_eq(left.value, <<>>, right.value, <<>>).ok

\* C14: value_eq returns (it terminates, on cyclic heaps too, and does not
\* panic), and it returns true iff the graphs reachable from the two values
\* are bisimilar: two heap references compare equal exactly when the heap
\* values they point to are structurally equal; value_eq is reflexive and
\* symmetric.
ValueEqIsBisimilarity ==
  call.pc = "returned" /\ call.fn = "value_eq" =>
    /\ ~call.result.panic
    /\ call.result.ok <=> Bisimilar(call.left, call.right)
    /\ call.result.ok = value_eq(call.right.value, call.right.heap,
                                 call.left.value, call.left.heap).ok
    /\ call.left = call.right => call.result.ok

\* display has returned its output
DisplayedOk == dis.pc = "done" /\ dis.result.t = "Ok"
\* a reachable heap value is hoisted into a binding
Hoisted == \E k \in 1..Len(dis.result.statements) : dis.result.statements[k].op = "const"
\* the root is an Object written in place, with no binding
RootIsInlineObject ==
  /\ dis.value.t = "HeapReference"
  /\ open(dis.heap, dis.value.index).t = "Object"
  /\ dis.value.index \notin DOMAIN dis.idents

\* C15 as stated: in Expression format the output is wrapped in an
\* immediately-invoked function that ends in return <root> iff a reachable
\* heap value is hoisted into a binding, and is the bare root expression
\* otherwise; in Repl and Eval formats the statements are at top level and
\* the root expression is in parentheses iff the root is an inlineable Object.
DisplayWrapperAsStated ==
  DisplayedOk =>
    IF dis.format = "Expression"
    THEN /\ dis.result.function <=> Hoisted
         /\ ~dis.result.function => ~dis.result.parens
    ELSE /\ ~dis.result.function
         /\ dis.result.parens <=> RootIsInlineObject

\* C15: in Expression format the output is wrapped in an immediately-invoked
\* function that ends in return <root> iff a reachable heap value is hoisted
\* into a binding; in Repl and Eval formats the statements are at top level;
\* in every format the root expression of an output that is not wrapped in a
\* function is in parentheses iff the root is an inlineable Object.
DisplayWrapper ==
  DisplayedOk =>
    /\ dis.result.function <=> dis.format = "Expression" /\ Hoisted
    /\ dis.result.parens <=> ~dis.result.function /\ RootIsInlineObject

\* an Expression with nothing hoisted whose root is an Object, in parentheses
DisplayWrapperWitness ==
  /\ DisplayedOk /\ dis.format = "Expression"
  /\ ~Hoisted /\ RootIsInlineObject /\ dis.result.parens

\* The places of bytes where the TwoByte string "a" of the serializer's
\* inputs is written: its tag, its length in bytes, its one code unit.  No
\* other part of an output of these inputs holds these four bytes.
TwoByteAt(bytes) ==
  {p \in 1..(Len(bytes) - 3) :
     SubSeq(bytes, p, p + 3) = <<TagTwoByteString, 2>> \o as_u8_bytes(TwoByteA.data)}
\* every TwoByte payload written so far starts at an even offset of the data
\* (the offset of bytes[p] is p - 1, and the payload comes two bytes after
\* the tag)
PayloadsAligned == \A p \in TwoByteAt(ser.data) : (p + 1) % 2 = 0
\* the lengths, in code units, of the TwoByte strings write_string is given:
\* around the lengths whose varint takes one more byte
MaxDataLen == 3
TwoByteLengths == {0, 1, 63, 64, 65, 8191, 8192}
\* write_string puts before the tag one Padding byte if the payload would
\* start at an odd offset without it and none if it would not, and the payload
\* starts at an even offset
WriteStringPads ==
  \A data_len \in 0..MaxDataLen, n \in TwoByteLengths :
    With(write_string(data_len, [enc |-> "TwoByte", data |-> Vec([i \in 1..n |-> 97])]),
         LAMBDA out :
    With(Len(out) - (1 + Len(write_varint(2 * n)) + 2 * n), LAMBDA paddings :
      /\ paddings = IF (data_len + 1 + Len(write_varint(2 * n))) % 2 = 1 THEN 1 ELSE 0
      /\ \A k \in 1..paddings : out[k] = TagPadding
      /\ out[paddings + 1] = TagTwoByteString
      /\ (data_len + Len(out) - 2 * n) % 2 = 0))

\* C16: whenever the serializer writes a TwoByte string (as a value, a
\* property key, a StringObject, a RegExp pattern, an Error message or
\* stack), it inserts exactly one Padding byte before the TwoByteString tag
\* iff the payload would otherwise start at an odd offset of the output, and
\* none otherwise, so the first payload byte always lies at an even offset.
TwoByteAlignment == PayloadsAligned /\ WriteStringPads

\* a StringObject written with a Padding byte between its tag and the tag of
\* its TwoByte string
TwoByteAlignmentWitness ==
  /\ SerOk
  /\ \E p \in TwoByteAt(ser.data) :
       /\ p > 2
       /\ ser.data[p - 1] = TagPadding
       /\ ser.data[p - 2] = TagStringObject

(***************************************************************************)
(* Varints on their own: a u32 written by write_varint and read back with  *)
(* bytes after it, and read_varint and read_varint_u8 on arbitrary bytes.  *)
(***************************************************************************)
MaxVarintInput == 6
VarintBytes == {0, 1, 127, 128, 143, 255}
\* the u32 values written: around every length of the encoding, up to 2^32 - 1
VarintValues ==
  {[hi |-> 0, lo |-> 0], [hi |-> 0, lo |-> 1], [hi |-> 0, lo |-> 127],
   [hi |-> 0, lo |-> 128], [hi |-> 0, lo |-> 300], [hi |-> 0, lo |-> 16383],
   [hi |-> 0, lo |-> 16384], [hi |-> 0, lo |-> 65535], [hi |-> 1, lo |-> 0],
   [hi |-> 31, lo |-> 65535], [hi |-> 32, lo |-> 0], [hi |-> 4095, lo |-> 65535],
   [hi |-> 4096, lo |-> 0], [hi |-> 32767, lo |-> 65535], [hi |-> 32768, lo |-> 0],
   [hi |-> 43690, lo |-> 21845], [hi |-> 65535, lo |-> 65535]}
NoValue == [hi |-> -1, lo |-> -1]
InitVarint ==
  /\ \/ \E value \in VarintValues :
          call = [pc |-> "value", reader |-> "read_varint", value |-> value,
                  bytes |-> <<>>, written |-> 0, result |-> [ok |-> FALSE, kind |-> "None"]]
     \/ \E n \in 0..MaxVarintInput : \E bytes \in [1..n -> VarintBytes] :
          \E reader \in {"read_varint", "read_varint_u8"} :
            call = [pc |-> "bytes", reader |-> reader, value |-> NoValue,
                    bytes |-> bytes, written |-> 0,
                    result |-> [ok |-> FALSE, kind |-> "None"]]
  /\ de = Idle
  /\ ser = Idle
  /\ dis = Idle
  /\ heap_builder = Idle
\* write_varint(value), and the bytes the serializer writes after it
WriteVarint ==
  /\ call.pc = "value"
  /\ \E rest \in {<<>>, <<0>>, <<255, 255>>} :
       call' = With(write_varint_loop(call.value), LAMBDA data :
                 [call EXCEPT !.pc = "bytes", !.bytes = data \o rest,
                              !.written = Len(data)])
  /\ UNCHANGED <<de, ser, dis, heap_builder>>
ReadVarint ==
  /\ call.pc = "bytes" /\ call.reader = "read_varint"
  /\ call' = [call EXCEPT !.pc = "returned",
                          !.result = read_varint_loop(call.bytes, 0, U32Zero, 0)]
  /\ UNCHANGED <<de, ser, dis, heap_builder>>
ReadVarintU8 ==
  /\ call.pc = "bytes" /\ call.reader = "read_varint_u8"
  /\ call' = [call EXCEPT !.pc = "returned", !.result = read_varint_u8(call.bytes, 0)]
  /\ UNCHANGED <<de, ser, dis, heap_builder>>
NextVarint == WriteVarint \/ ReadVarint \/ ReadVarintU8
SpecVarint == InitVarint /\ [][NextVarint]_vars

\* what write_varint wrote is little-endian base 128: every byte but the last
\* has the top bit set, and read_varint gives the value back and stops after
\* the last byte written
VarintRoundTrip ==
  call.pc = "returned" /\ call.value # NoValue =>
    /\ \A k \in 1..(call.written - 1) : call.bytes[k] >= 128
    /\ call.bytes[call.written] < 128
    /\ call.result.ok
    /\ call.result.value = call.value
    /\ call.result.position = call.written
\* on any input the readers stop after 5 bytes and after 2, and never shift
\* by the width of the integer or more
VarintBounded ==
  call.pc = "returned" =>
    /\ call.result.position <= (IF call.reader = "read_varint" THEN 5 ELSE 2)
    /\ ~call.result.ok => call.result.kind # "PanicShiftOverflow"

\* C17: varints are little-endian base 128 with the top bit as continuation
\* bit: for every u32 v, read_varint applied to the bytes written by
\* write_varint(v) returns v and consumes exactly those bytes; on arbitrary
\* input read_varint consumes at most 5 bytes and read_varint_u8 at most 2,
\* whatever the continuation bits, without shift overflow.
VarintCodec == VarintRoundTrip /\ VarintBounded

\* 2^32 - 1 read back from its five bytes, and five bytes with the
\* continuation bit set in each read from a longer input
VarintCodecWitness ==
  /\ call.pc = "returned" /\ call.reader = "read_varint" /\ call.result.ok
  /\ call.result.position = 5
  /\ \/ call.value = [hi |-> 65535, lo |-> 65535] /\ Len(call.bytes) > 5
     \/ call.value = NoValue /\ Len(call.bytes) > 5 /\ call.bytes[5] >= 128

\* the ArrayBuffer that the value just read refers to, if it refers to one
BufferReturned ==
  IF de.pc = "tail" /\ de.ret.t = "HeapReference" /\ de.ret.index < Len(de.values)
     /\ de.values[de.ret.index + 1].some
     /\ de.values[de.ret.index + 1].v.t = "ArrayBuffer"
  THEN de.values[de.ret.index + 1]
  ELSE None
\* the four fields after an ArrayBufferView tag at the cursor
ViewFieldsAtCursor ==
  Bind(expect_tag(de.bytes, de.position, TagArrayBufferView), LAMBDA tag :
    Bind(read_varint_u8(de.bytes, tag.position), LAMBDA sub_tag :
      Bind(read_varint(de.bytes, sub_tag.position), LAMBDA byte_offset :
        Bind(read_varint(de.bytes, byte_offset.position), LAMBDA byte_length :
          Bind(read_varint(de.bytes, byte_length.position), LAMBDA flags :
            Ok([tag |-> sub_tag.value, byte_offset |-> byte_offset.value,
                byte_length |-> byte_length.value], flags.position))))))
ReadsView == BufferReturned.some /\ ViewFieldsAtCursor.ok
\* the element widths of the kind with this view tag; none if the tag is unknown
WidthsOf(tag) == {ViewKinds[i].width : i \in {i \in 1..Len(ViewKinds) : ViewKinds[i].tag = tag}}
\* A view is returned only if it lies in its buffer and is aligned, and it
\* refers to the slot of the buffer; if not, the error is one of the five and
\* names a condition that does not hold.
ViewChecked ==
  ReadsView =>
    With(ViewFieldsAtCursor.value, LAMBDA f :
    With(Len(BufferReturned.v.data), LAMBDA buffer_byte_length :
      IF de'.pc # "done"
      THEN /\ f.byte_offset <= buffer_byte_length
           /\ f.byte_length <= buffer_byte_length - f.byte_offset
           /\ \E width \in WidthsOf(f.tag) :
                /\ f.byte_offset % width = 0
                /\ f.byte_length % width = 0
                /\ Last(de'.values).v.length = f.byte_length \div width
           /\ Len(de'.values) = Len(de.values) + 1
           /\ Last(de'.values).v.t = "ArrayBufferView"
           /\ Last(de'.values).v.buffer = de.ret.index
           /\ Last(de'.values).v.byte_offset = f.byte_offset
           /\ de'.ret = HeapReference(Len(de.values))
      ELSE /\ de'.result.t = "Err"
           /\ \/ /\ de'.result.kind = "InvalidArrayBufferViewOffset"
                 /\ f.byte_offset > buffer_byte_length
              \/ /\ de'.result.kind = "InvalidArrayBufferViewLength"
                 /\ f.byte_offset <= buffer_byte_length
                 /\ f.byte_length > buffer_byte_length - f.byte_offset
              \/ /\ de'.result.kind = "InvalidArrayBufferViewTag"
                 /\ WidthsOf(f.tag) = {}
                 /\ de'.result.info = <<f.tag>>
              \/ /\ de'.result.kind = "UnalignedArrayBufferViewOffset"
                 /\ \E width \in WidthsOf(f.tag) : f.byte_offset % width # 0
              \/ /\ de'.result.kind = "UnalignedArrayBufferViewLength"
                 /\ \E width \in WidthsOf(f.tag) : f.byte_length % width # 0))

\* C18: when an ArrayBufferView tag follows a value that is a heap reference
\* to an ArrayBuffer, read returns a new view that references that buffer's
\* slot only if byte_offset <= buffer byte length, byte_length <= buffer byte
\* length - byte_offset, and both are multiples of the kind's element width;
\* otherwise read fails with InvalidArrayBufferViewOffset,
\* InvalidArrayBufferViewLength, UnalignedArrayBufferViewOffset or
\* UnalignedArrayBufferViewLength respectively, and with
\* InvalidArrayBufferViewTag for an unknown view sub-tag.
ViewWithinBuffer == [][ViewChecked]_vars

\* a view of four-byte elements at an offset inside its buffer has been read
ViewWithinBufferWitness ==
  /\ Succeeded
  /\ \E k \in 1..Len(de.result.heap) :
       /\ de.result.heap[k].t = "ArrayBufferView"
       /\ de.result.heap[k].byte_offset = 4
       /\ de.result.heap[k].length = 1
       /\ de.result.heap[de.result.heap[k].buffer + 1].t = "ArrayBuffer"

\* the flags of the RegExp whose pattern has just been read
ReadsFlags ==
  /\ de.pc = "string_return" /\ Top(de).fn = "read_object_internal"
  /\ Top(de).arm = "RegExp"
  /\ read_varint(de.bytes, de.position).ok
\* no bit outside the nine flags, not linear (64), not both unicode (16) and
\* unicodeSets (256)
FlagsValid(flags) ==
  /\ flags < 512
  /\ (flags \div 64) % 2 = 0
  /\ ~((flags \div 16) % 2 = 1 /\ (flags \div 256) % 2 = 1)
\* the RegExp is read iff its flags are valid, and InvalidRegExpFlags names
\* them if they are not
FlagsChecked ==
  ReadsFlags =>
    With(read_varint(de.bytes, de.position).value, LAMBDA flags :
      IF FlagsValid(flags)
      THEN /\ de'.pc # "done"
           /\ Last(de'.values) = Some([t |-> "RegExp", pattern |-> de.ret, flags |-> flags])
      ELSE /\ de'.pc = "done" /\ de'.result.t = "Err"
           /\ de'.result.kind = "InvalidRegExpFlags"
           /\ de'.result.info = <<flags>>)
\* the same on every bitfield of ten bits
MaxFlags == 1023
EveryFlagsChecked == \A flags \in 0..MaxFlags : accepted_flags(flags).some <=> FlagsValid(flags)

\* C19: reading a RegExp succeeds iff its flags bitfield has no bit outside
\* the nine defined flags, does not have the linear flag, and does not have
\* both unicode and unicodeSets; in every other case read fails with
\* InvalidRegExpFlags.
RegExpFlagsChecked == [][FlagsChecked]_vars /\ []EveryFlagsChecked

\* a RegExp with seven flags has been read
RegExpFlagsCheckedWitness ==
  /\ Succeeded
  /\ \E k \in 1..Len(de.result.heap) :
       de.result.heap[k].t = "RegExp" /\ de.result.heap[k].flags = 431

(***************************************************************************)
(* The two depth limits against each other: read is given an input nested  *)
(* about RECURSION_DEPTH_LIMIT levels deep, finish is given what read      *)
(* returned, and read is given what finish wrote.                          *)
(***************************************************************************)
\* more steps than a call of read or of finish takes on these inputs
MaxSteps == 4096
\* what lies innermost: undefined, an empty Set, an empty ArrayBuffer with a
\* Uint8Array on it, a StringObject, an Error with a message
Innermost ==
  { <<TagUndefined>>,
    <<TagBeginJsSet, TagEndJsSet, 0>>,
    <<TagArrayBuffer, 0, TagArrayBufferView, 66, 0, 0, 0>>,
    <<TagStringObject, TagOneByteString, 0>>,
    <<TagError, ErrMessage, TagOneByteString, 0, ErrEnd>> }
MaxUnder == 2
DepthsAround == (RECURSION_DEPTH_LIMIT - MaxUnder)..(RECURSION_DEPTH_LIMIT + 1)
DepthInputs ==
  {Header \o Repeat(nest.open, n) \o inner \o Repeat(nest.close, n) :
     nest \in Nests, n \in DepthsAround, inner \in Innermost}

\* read and finish to their return, by halves of the steps
RECURSIVE Steps(_, _)
Steps(d, n) ==
  IF d.pc = "done" \/ n = 0 THEN d
  ELSE IF n = 1 THEN Step(d)
  ELSE With(Steps(d, n \div 2), LAMBDA half : Steps(half, n - (n \div 2)))
RECURSIVE SerSteps(_, _)
SerSteps(s, n) ==
  IF s.pc = "done" \/ n = 0 THEN s
  ELSE IF n = 1 THEN SerStep(s)
  ELSE With(SerSteps(s, n \div 2), LAMBDA half : SerSteps(half, n - (n \div 2)))

InitDepth ==
  /\ \E bytes \in DepthInputs : de = NewDeserializer(bytes)
  /\ ser = Idle
  /\ call = Idle
  /\ dis = Idle
  /\ heap_builder = Idle
ReadDeep ==
  /\ de.pc = "new"
  /\ de' = Steps(de, MaxSteps)
  /\ UNCHANGED <<ser, dis, heap_builder, call>>
FinishReturned ==
  /\ de.pc = "done" /\ de.result.t = "Ok" /\ ser = Idle
  /\ ser' = SerSteps(NewSerializer(de.result.heap, de.result.value), MaxSteps)
  /\ UNCHANGED <<de, dis, heap_builder, call>>
ReadWritten ==
  /\ ser.pc = "done" /\ ser.result.t = "Ok" /\ call = Idle
  /\ call' = [fn |-> "read", pc |-> "returned",
              result |-> Steps(NewDeserializer(ser.result.data), MaxSteps).result]
  /\ UNCHANGED <<de, ser, dis, heap_builder>>
NextDepth == ReadDeep \/ FinishReturned \/ ReadWritten
SpecDepth == InitDepth /\ [][NextDepth]_vars

\* finish accepts what read returned
ReturnedIsWritten ==
  ser.pc = "done" => ~(ser.result.t = "Err" /\ ser.result.kind = "RecursionDepthLimitExceeded")
\* read accepts what finish wrote
WrittenIsRead ==
  call.pc = "returned" => ~(call.result.t = "Err" /\ call.result.kind = "TooDeeplyNested")

\* C20: the serializer's recursion limit mirrors the parser's cap of 256:
\* every (Value, Heap) that read returned is serialized by finish without
\* RecursionDepthLimitExceeded, and the bytes of every value that finish
\* accepts are never rejected by read with TooDeeplyNested.
DepthLimitsMirror == ReturnedIsWritten /\ WrittenIsRead


(***************************************************************************)
(* write_bigint_contents and read_bigint on BigInts.  A short BigInt is    *)
(* written and read whole.  A long one is known by its sign and the length *)
(* of its magnitude only (the usize bytes.len() as 16-bit halves): its     *)
(* bitfield is written and read, and its magnitude bytes are not laid out. *)
(***************************************************************************)
MaxMagnitude == 3
MagnitudeBytes == {0, 1, 255}
\* BigInts as num_bigint keeps them: no leading zero digit, zero without sign
ShortBigInts ==
  {[sign |-> "NoSign", mag |-> <<>>]}
  \cup {[sign |-> sign, mag |-> mag] :
          sign \in {"Plus", "Minus"},
          mag \in {m \in UNION {[1..n -> MagnitudeBytes] : n \in 1..MaxMagnitude} :
                     Last(m) # 0}}
\* lengths around 2^30, 2^31 and 2^32
LongLengths ==
  {[hi |-> 0, lo |-> 4], [hi |-> 0, lo |-> 65535], [hi |-> 1, lo |-> 0],
   [hi |-> 16383, lo |-> 65535], [hi |-> 16384, lo |-> 0], [hi |-> 16384, lo |-> 1],
   [hi |-> 32767, lo |-> 65535], [hi |-> 32768, lo |-> 0], [hi |-> 65535, lo |-> 65535],
   [hi |-> 65536, lo |-> 0]}
NoBigInt == [sign |-> "NoSign", mag |-> <<>>]
NoRead == [ok |-> FALSE, sign |-> "NoSign", byte_length |-> U32Zero, value |-> NoBigInt]
InitBigInt ==
  /\ \/ \E val \in ShortBigInts :
          call = [pc |-> "value", whole |-> TRUE, val |-> val,
                  length |-> [hi |-> 0, lo |-> Len(to_bytes_le(val))],
                  bytes |-> <<>>, result |-> NoRead]
     \/ \E sign \in {"Plus", "Minus"}, length \in LongLengths :
          call = [pc |-> "value", whole |-> FALSE, val |-> [sign |-> sign, mag |-> <<>>],
                  length |-> length, bytes |-> <<>>, result |-> NoRead]
  /\ de = Idle
  /\ ser = Idle
  /\ dis = Idle
  /\ heap_builder = Idle
\* write_bigint_contents returning Ok: the bitfield, and the magnitude of a
\* short value
WriteBigIntContents ==
  /\ call.pc = "value"
  /\ bigint_bitfield(call.val.sign, call.length).t = "Ok"
  /\ call' = [call EXCEPT
               !.pc = "written",
               !.bytes = IF call.whole THEN write_bigint_contents(call.val)
                         ELSE write_varint_loop(
                                bigint_bitfield(call.val.sign, call.length).value)]
  /\ UNCHANGED <<de, ser, dis, heap_builder>>
\* write_bigint_contents returning Err(BigIntTooLarge)
RefuseBigInt ==
  /\ call.pc = "value"
  /\ bigint_bitfield(call.val.sign, call.length).t = "Err"
  /\ call' = [call EXCEPT !.pc = "refused"]
  /\ UNCHANGED <<de, ser, dis, heap_builder>>
\* read_bigint on what was written: whole for a short value, up to the
\* byte length it takes from the bitfield for a long one
ReadBigInt ==
  /\ call.pc = "written"
  /\ call' = With(read_varint_loop(call.bytes, 0, U32Zero, 0), LAMBDA bitfield :
             With(read_bigint(call.bytes, 0), LAMBDA r :
               [call EXCEPT
                 !.pc = "returned",
                 !.result = [ok |-> IF call.whole THEN r.ok ELSE bitfield.ok,
                             sign |-> bigint_sign(bitfield.value),
                             byte_length |-> bigint_byte_length(bitfield.value),
                             value |-> IF call.whole /\ r.ok THEN r.value
                                       ELSE NoBigInt]]))
  /\ UNCHANGED <<de, ser, dis, heap_builder>>
NextBigInt == WriteBigIntContents \/ RefuseBigInt \/ ReadBigInt
SpecBigInt == InitBigInt /\ [][NextBigInt]_vars

\* the magnitude takes more than 30 bits to count
ExceedsThirtyBits(length) == length.hi >= 16384
\* finish refuses every BigInt whose byte length exceeds 30 bits
LongRefused ==
  call.pc \in {"written", "returned"} => ~ExceedsThirtyBits(call.length)
\* a BigInt within 30 bits is accepted
ShortAccepted == call.pc = "refused" => ExceedsThirtyBits(call.length)
\* the bitfield read back: bit 0 the sign, the length in the bits after it,
\* and a short value read whole is the value written
ReadsBack ==
  call.pc = "returned" =>
    /\ call.result.ok
    /\ call.result.sign = (IF call.val.sign = "Minus" THEN "Minus" ELSE "Plus")
    /\ call.result.byte_length = call.length
    /\ call.whole => call.result.value = call.val
\* a length over 31 bits is refused
OverU31Refused == call.pc \in {"written", "returned"} => call.length.hi < 32768

\* C21: finish fails with BigIntTooLarge for every BigInt whose magnitude
\* byte length exceeds 30 bits; for every BigInt it accepts, bit 0 of the
\* written bitfield is the sign and the following 30 bits are the byte
\* length, so read_bigint reads back the same number of magnitude bytes and
\* the same value.
BigIntBitfield == LongRefused /\ ReadsBack

(***************************************************************************)
(* read on an input, and read on the same input with VerifyObjectCount     *)
(* tags in front of one of its values.                                     *)
(***************************************************************************)
\* the most VerifyObjectCount tags inserted in front of a value of a short
\* input; in front of a value of a sample as many as the limit of the depth
\* and one more are inserted too
MaxVerify == 2
ManyVerify == {RECURSION_DEPTH_LIMIT, RECURSION_DEPTH_LIMIT + 1}
\* the varints that follow the tag
VerifyCounts == {<<0>>, <<128, 1>>}

\* bytes with n times VerifyObjectCount and a count inserted after its first
\* i bytes
Verified(bytes, i, n, count) ==
  SubSeq(bytes, 1, i) \o Repeat(<<TagVerifyObjectCount>> \o count, n)
  \o SubSeq(bytes, i + 1, Len(bytes))

InitVerify == InitShort
\* read on the input
ReadPlain ==
  /\ de.pc = "new"
  /\ de' = Steps(de, MaxSteps)
  /\ UNCHANGED <<ser, dis, heap_builder, call>>
\* read on the input with the tags in front of a value that read has read
ReadVerified ==
  /\ de.pc = "done" /\ call = Idle
  /\ \E e \in de.expect :
       /\ e[2] = "value"
       /\ \E n \in (1..MaxVerify) \cup (IF de.bytes \in Samples THEN ManyVerify ELSE {}) :
            \E count \in VerifyCounts :
              call' = [fn |-> "read", pc |-> "returned", at |-> e[1], n |-> n,
                       result |-> Steps(NewDeserializer(Verified(de.bytes, e[1], n, count)),
                                        MaxSteps).result]
  /\ UNCHANGED <<de, ser, dis, heap_builder>>
NextVerify == ReadPlain \/ ReadVerified
SpecVerify == InitVerify /\ [][NextVerify]_vars

\* C22: inserting, any number of times, a VerifyObjectCount tag followed by
\* a varint in front of a value does not change the result of read (the same
\* value and heap, or the same error kind): the varint is consumed and
\* ignored and the same value slot is then read as if the tag were absent.
VerifyObjectCountIgnored ==
  call.pc = "returned" => SameResult(de.result, call.result)

\* the same, where the read of the input with the tags does not reach the
\* limit of the depth
VerifyObjectCountIgnoredInDepth ==
  call.pc = "returned" =>
    \/ SameResult(de.result, call.result)
    \/ call.result.t = "Err" /\ call.result.kind = "TooDeeplyNested"
\* every read returns
VerifyReadsReturn ==
  /\ de.pc = "done" => de.result.t # "None"
  /\ call.pc = "returned" => call.result.t # "None"

(***************************************************************************)
(* The statements display has written, read back: which identifiers a      *)
(* statement names, and what was bound before it.                          *)
(***************************************************************************)
\* the identifiers v<i> named in an expression
RECURSIVE IdentsOf(_)
IdentsOf(e) ==
  CASE e.x \in {"ident", "buffer of", "new view on"} -> {e.i}
    [] e.x = "object" -> UNION {IdentsOf(e.properties[k][2]) : k \in 1..Len(e.properties)}
    [] e.x = "array" /\ "kind" \notin DOMAIN e ->
         UNION {IdentsOf(e.elements[k]) : k \in 1..Len(e.elements)}
    [] e.x = "new Map" ->
         UNION {IdentsOf(e.entries[k][1]) \cup IdentsOf(e.entries[k][2]) :
                  k \in 1..Len(e.entries)}
    [] e.x = "new Set" -> UNION {IdentsOf(e.values[k]) : k \in 1..Len(e.values)}
    [] e.x = "new Error" -> IF e.cause.some THEN IdentsOf(e.cause.v) ELSE {}
    [] OTHER -> {}
\* the identifiers named in a statement, the one it declares apart
StatementIdents(statement) ==
  CASE statement.op = "const" -> IdentsOf(statement.e)
    [] statement.op = "assign" -> {statement.i} \cup IdentsOf(statement.e)
    [] statement.op = "set" ->
         {statement.i} \cup IdentsOf(statement.key) \cup IdentsOf(statement.e)
    [] statement.op = "add" -> {statement.i} \cup IdentsOf(statement.e)
    [] statement.op = "fill" -> {statement.i}
\* the statements of follow-up tasks
TaskStatements == {k \in 1..Len(dis.out) : dis.out[k].op # "const"}
\* reference was bound by a statement before the k-th
BoundBefore(k, reference) ==
  \E j \in 1..(k - 1) : dis.out[j].op = "const" /\ dis.out[j].reference = reference
\* v<i> was declared by a statement before the k-th
DeclaredBefore(k, i) == \E j \in 1..(k - 1) : dis.out[j].op = "const" /\ dis.out[j].i = i
\* the values a task refers to
TaskValues(task) ==
  CASE task.task = "MapSet" -> {task.key, task.value}
    [] task.task \in {"PropertyAssignment", "SetAdd"} -> {task.value}
    [] OTHER -> {}
\* value was ready to render when the k-th statement was written (4.5.5)
ReadyBefore(k, value) ==
  \/ value.t # "HeapReference"
  \/ inlineable(dis.deps[value.index])
  \/ BoundBefore(k, value.index)
  \/ /\ open(dis.heap, value.index).t = "ArrayBuffer"
     /\ LET view == array_buffer_view_to_render_array_buffer_in(
                      dis, open(dis.heap, value.index), dis.deps[value.index])
        IN /\ view.t = "Some"
           /\ inlineable(dis.deps[view.reference]) \/ BoundBefore(k, view.reference)

\* a task is written after the const of its target
TaskAfterTarget ==
  \A k \in TaskStatements :
    BoundBefore(k, dis.out[k].task.target)
    /\ \E j \in 1..(k - 1) : dis.out[j].op = "const" /\ dis.out[j].i = dis.out[k].i
                             /\ dis.out[j].reference = dis.out[k].task.target
\* and when every value it refers to is ready to render
TaskValuesReady ==
  \A k \in TaskStatements : \A value \in TaskValues(dis.out[k].task) : ReadyBefore(k, value)
\* no statement, and no root expression, names v<i> before its const
IdentsDeclared ==
  /\ \A k \in 1..Len(dis.out) : \A i \in StatementIdents(dis.out[k]) : DeclaredBefore(k, i)
  /\ dis.pc = "done" /\ dis.result.t = "Ok" =>
       \A i \in IdentsOf(dis.result.root) : DeclaredBefore(Len(dis.out) + 1, i)
\* the numbers of the tasks written and of the tasks pending
WrittenTasks == {dis.out[k].task.n : k \in TaskStatements}
PendingTasks == {dis.follow_up_tasks[k].n : k \in 1..Len(dis.follow_up_tasks)}
\* every task pushed is pending or written, never both and never twice, and
\* none is pending when display returns
TasksOnce ==
  dis.pc \in {"order", "done"} /\ (dis.pc = "done" => dis.result.t = "Ok") =>
    /\ WrittenTasks \cup PendingTasks = 1..Len(dis.scheduled)
    /\ WrittenTasks \cap PendingTasks = {}
    /\ Cardinality(WrittenTasks) = Cardinality(TaskStatements)
    /\ Cardinality(PendingTasks) = Len(dis.follow_up_tasks)
    /\ dis.pc = "done" => dis.follow_up_tasks = <<>>
\* the tasks that stay pending over a binding keep their order
PendingInOrder ==
  dis.pc = "order" /\ dis'.pc = "order" =>
    LET kept == PendingTasks \cap {dis'.follow_up_tasks[k].n :
                                     k \in 1..Len(dis'.follow_up_tasks)}
    IN SelectSeq(dis.follow_up_tasks, LAMBDA task : task.n \in kept)
       = SelectSeq(dis'.follow_up_tasks, LAMBDA task : task.n \in kept)

\* C23: a follow-up task (PropertyAssignment, MapSet, SetAdd, ArrayBufferSet)
\* is emitted only after the const binding of its target has been emitted
\* and only when every heap value it references is ready to render; a task
\* that is not runnable is kept pending in its original relative order;
\* every scheduled task is emitted exactly once, and no identifier v<i>
\* appears in the output before its const declaration.
FollowUpTasksInTurn ==
  /\ [](TaskAfterTarget /\ TaskValuesReady /\ TasksOnce /\ IdentsDeclared)
  /\ [][PendingInOrder]_vars

\* display has returned a task that stayed pending over a later binding
FollowUpTasksInTurnWitness ==
  /\ dis.pc = "done" /\ dis.result.t = "Ok"
  /\ \E k \in TaskStatements : \E j \in 1..(k - 1) : \E m \in (j + 1)..(k - 1) :
       /\ dis.out[j].op = "const" /\ dis.out[j].reference = dis.out[k].task.target
       /\ dis.out[m].op = "const"

\* the statements of the ordered assignments of a target
OrderedStatements(target) ==
  {k \in TaskStatements :
     /\ dis.out[k].task.task = "PropertyAssignment"
     /\ dis.out[k].task.requires_ordering
     /\ dis.out[k].task.target = target}
\* the place of a key in the property list of a heap value
PropertyPlace(target, key) ==
  CHOOSE p \in 1..Len(open(dis.heap, target).properties) :
    open(dis.heap, target).properties[p][1] = key
\* the ordered assignments of a target are written in the order of its
\* property list
OrderedAsListed ==
  \A target \in DOMAIN dis.deps : \A j, k \in OrderedStatements(target) :
    j < k => PropertyPlace(target, dis.out[j].task.key)
               < PropertyPlace(target, dis.out[k].task.key)
\* the ordered assignments of a target that are pending
PendingOrdered(d, target) ==
  SelectSeq(d.follow_up_tasks,
            LAMBDA task : /\ task.task = "PropertyAssignment" /\ task.requires_ordering
                          /\ task.target = target)
\* an ordered assignment that stays pending over a binding keeps every later
\* ordered assignment of its target pending: no ordered assignment is
\* written while one pushed before it for the same target is pending
OrderedDeferredTogether ==
  dis.pc = "order" /\ dis'.pc \in {"order", "done"} =>
    \A target \in DOMAIN dis.deps :
      \A k \in 1..Len(dis'.out) :
        /\ k > Len(dis.out)
        /\ k \in {m \in 1..Len(dis'.out) : dis'.out[m].op = "assign"}
        /\ dis'.out[k].task.requires_ordering /\ dis'.out[k].task.target = target
        => \A p \in 1..Len(PendingOrdered(dis', target)) :
             PendingOrdered(dis', target)[p].n > dis'.out[k].task.n

\* C24: for each target, the PropertyAssignment tasks that require ordering
\* (all properties of a sparse array, the extra properties of a dense array)
\* are emitted in the order of the heap value's property list: if an earlier
\* ordered task for the same target is still pending because its value is
\* not ready, every later ordered task for that target is deferred too, even
\* when its own value is ready.
OrderedAssignments == []OrderedAsListed /\ [][OrderedDeferredTogether]_vars

(***************************************************************************)
(* The dependency pass, against the graph of the heap.                     *)
(***************************************************************************)
\* the references a heap value holds, one for each time it holds it
EdgesFrom(reference) == referred_by(open(dis.heap, reference))
\* how many times from holds to
EdgeCount(from, to) ==
  Cardinality({k \in 1..Len(EdgesFrom(from)) : EdgesFrom(from)[k] = to})
\* the references reachable from those of seen
RECURSIVE ReachableFrom(_)
ReachableFrom(seen) ==
  LET next == seen \cup UNION {Members(EdgesFrom(reference)) : reference \in seen}
  IN IF next = seen THEN seen ELSE ReachableFrom(next)
RootReachable ==
  IF dis.value.t = "HeapReference" THEN ReachableFrom({dis.value.index}) ELSE {}
\* the place of a reference in order
PlaceInOrder(reference) == CHOOSE p \in 1..Len(dis.order) : dis.order[p] = reference
\* how many times the values of set hold to
RECURSIVE Incoming(_, _)
Incoming(set, to) ==
  IF set = {} THEN 0
  ELSE LET from == CHOOSE r \in set : TRUE
       IN EdgeCount(from, to) + Incoming(set \ {from}, to)

\* order holds every reachable reference once
OrderIsReachable ==
  /\ Members(dis.order) = RootReachable
  /\ Len(dis.order) = Cardinality(RootReachable)
\* a value comes after the values it holds, but for the back-edges, which
\* lead to a value that reaches their origin; the root is last
OrderIsPostOrder ==
  /\ \A from \in RootReachable : \A to \in Members(EdgesFrom(from)) :
       \/ PlaceInOrder(to) < PlaceInOrder(from)
       \/ <<from, to>> \in dis.back_edges
  /\ \A edge \in dis.back_edges :
       /\ edge[2] \in Members(EdgesFrom(edge[1]))
       /\ edge[1] \in ReachableFrom({edge[2]})
       /\ PlaceInOrder(edge[2]) >= PlaceInOrder(edge[1])
  /\ dis.value.t = "HeapReference" => Last(dis.order) = dis.value.index
\* dependants_count is the number of incoming edges, one more for the root
DependantsCounted ==
  \A to \in RootReachable :
    dis.deps[to].dependants_count
      = Incoming(RootReachable, to) + (IF to = dis.value.index THEN 1 ELSE 0)

\* C25: after the dependency pass, order contains every heap reference
\* reachable from the root exactly once, each value after all the values it
\* references except those reached through a back-edge, with the root last;
\* and for every reachable reference dependants_count equals the number of
\* incoming edges counted with multiplicity, plus one for the root.
DependencyPass ==
  dis.pc = "order" => OrderIsReachable /\ OrderIsPostOrder /\ DependantsCounted

\* the pass has met a back-edge and a value held twice by the same value
DependencyPassWitness ==
  /\ dis.pc = "order" /\ dis.back_edges # {}
  /\ \E from, to \in RootReachable : EdgeCount(from, to) > 1

\* both ends of every back-edge are marked
BackEdgesMarked ==
  dis.pc \in {"order", "done"} =>
    \A edge \in dis.back_edges :
      edge[1] \in DOMAIN dis.deps /\ edge[2] \in DOMAIN dis.deps
      => dis.deps[edge[1]].requires_binding /\ dis.deps[edge[2]].requires_binding
\* display does not enter the rendering of a value inside that rendering,
\* which never ends
NeverInsideItself ==
  dis.pc = "done" => ~(dis.result.t = "Panic" /\ dis.result.kind = StackOverflow)
\* the back-edge is written as a task on v<i> of its origin, with v<j> of
\* its end for the value
DeferredAssignment(edge) ==
  \E k \in TaskStatements :
    /\ dis.out[k].task.target = edge[1]
    /\ BoundBefore(k, edge[1]) /\ BoundBefore(k, edge[2])
    /\ \/ /\ dis.out[k].task.value = HeapReference(edge[2])
          /\ dis.out[k].e.x = "ident"
       \/ /\ dis.out[k].task.task = "MapSet"
          /\ dis.out[k].task.key = HeapReference(edge[2])
          /\ dis.out[k].key.x = "ident"
BackEdgesDeferred ==
  dis.pc = "done" /\ dis.result.t = "Ok" =>
    \A edge \in dis.back_edges : DeferredAssignment(edge)

\* C26: when the traversal meets a reference that is already on the
\* traversal stack, both that target and the value currently on top of the
\* stack are marked requires_binding; as a result display terminates on
\* every finite heap, cyclic or not: a value is never rendered inline inside
\* its own rendering, and every back-edge is emitted as a deferred
\* assignment on a bound identifier.
CyclesAreBroken == BackEdgesMarked /\ NeverInsideItself /\ BackEdgesDeferred

\* every value that the Map or Set at reference holds was ready to render
\* when the k-th statement was written
AllReadyBefore(k, reference) ==
  \A value \in Members(held_values(open(dis.heap, reference))) : ReadyBefore(k, value)
\* every Map and Set literal with entries inside e, written in the k-th
\* statement, is the literal of a Map or Set whose entries were all ready
RECURSIVE LiteralsReady(_, _)
LiteralsReady(k, e) ==
  CASE e.x = "new Map" ->
         /\ e.entries # <<>> => AllReadyBefore(k, e.reference)
         /\ \A p \in 1..Len(e.entries) :
              LiteralsReady(k, e.entries[p][1]) /\ LiteralsReady(k, e.entries[p][2])
    [] e.x = "new Set" ->
         /\ e.values # <<>> => AllReadyBefore(k, e.reference)
         /\ \A p \in 1..Len(e.values) : LiteralsReady(k, e.values[p])
    [] e.x = "object" ->
         \A p \in 1..Len(e.properties) : LiteralsReady(k, e.properties[p][2])
    [] e.x = "array" /\ "kind" \notin DOMAIN e ->
         \A p \in 1..Len(e.elements) : LiteralsReady(k, e.elements[p])
    [] e.x = "new Error" -> e.cause.some => LiteralsReady(k, e.cause.v)
    [] OTHER -> TRUE
\* a Map or Set literal holds entries only when all its entries are ready
LiteralsOfReadyEntries ==
  /\ \A k \in 1..Len(dis.out) :
       /\ dis.out[k].op # "fill" => LiteralsReady(k, dis.out[k].e)
       /\ dis.out[k].op = "set" => LiteralsReady(k, dis.out[k].key)
  /\ dis.pc = "done" /\ dis.result.t = "Ok" =>
       LiteralsReady(Len(dis.out) + 1, dis.result.root)
\* the p-th entry of the Map or Set at reference was pushed as a task
EntryDeferred(reference, p) ==
  LET held == open(dis.heap, reference)
  IN \E n \in 1..Len(dis.scheduled) :
       /\ dis.scheduled[n].target = reference
       /\ IF held.t = "Map"
          THEN /\ dis.scheduled[n].task = "MapSet"
               /\ dis.scheduled[n].key = held.entries[p][1]
               /\ dis.scheduled[n].value = held.entries[p][2]
          ELSE /\ dis.scheduled[n].task = "SetAdd"
               /\ dis.scheduled[n].value = held.values[p]
EntriesOf(reference) ==
  IF open(dis.heap, reference).t = "Map" THEN Len(open(dis.heap, reference).entries)
  ELSE Len(open(dis.heap, reference).values)
\* the entries are inserted in their order: none is in the literal after one
\* that is deferred to a task
EntriesInOrder ==
  dis.pc = "done" /\ dis.result.t = "Ok" =>
    \A reference \in DOMAIN dis.deps :
      open(dis.heap, reference).t \in {"Map", "Set"} =>
        \A p, q \in 1..EntriesOf(reference) :
          p < q /\ EntryDeferred(reference, p) => EntryDeferred(reference, q)

\* C27: a Map is rendered as a new Map([[k, v], ...]) literal holding its
\* entries only when every key and every value is ready to render; otherwise
\* its entries are emitted as individual MapSet follow-up tasks (for a Set:
\* SetAdd), so that no entry whose key or value is not ready is rendered
\* inline and the entries are inserted in their original order.
CollectionLiterals == LiteralsOfReadyEntries /\ EntriesInOrder

(***************************************************************************)
(* The expressions display has written, each with the expressions inside   *)
(* it.                                                                     *)
(***************************************************************************)
\* the expressions directly inside e
Inside(e) ==
  CASE e.x = "object" -> Vec([k \in 1..Len(e.properties) |-> e.properties[k][2]])
    [] e.x = "array" /\ "kind" \notin DOMAIN e -> e.elements
    [] e.x = "new Map" ->
         Vec([k \in 1..(2 * Len(e.entries)) |-> e.entries[(k + 1) \div 2][2 - (k % 2)]])
    [] e.x = "new Set" -> e.values
    [] e.x = "new Error" -> IF e.cause.some THEN <<e.cause.v>> ELSE <<>>
    [] OTHER -> <<>>
RECURSIVE Parts(_)
RECURSIVE PartsOfAll(_)
Parts(e) == <<e>> \o PartsOfAll(Inside(e))
PartsOfAll(es) == IF es = <<>> THEN <<>> ELSE Parts(Head(es)) \o PartsOfAll(Tail(es))
\* the expressions of a statement
StatementExpressions(statement) ==
  CASE statement.op = "fill" -> <<>>
    [] statement.op = "set" -> <<statement.key, statement.e>>
    [] OTHER -> <<statement.e>>
RECURSIVE ExpressionsUpTo(_)
ExpressionsUpTo(k) ==
  IF k = 0 THEN <<>> ELSE ExpressionsUpTo(k - 1) \o StatementExpressions(dis.out[k])
\* every expression written so far, the root's once display has returned
WrittenParts ==
  PartsOfAll(ExpressionsUpTo(Len(dis.out))
             \o (IF dis.pc = "done" /\ dis.result.t = "Ok" THEN <<dis.result.root>>
                 ELSE <<>>))
\* the expressions that create the buffer at reference: the buffer rendered
\* on its own, or a view rendered with the data of its buffer
Creates(e, reference) ==
  \/ e.x \in {"new ArrayBuffer", "buffer of new"} /\ e.reference = reference
  \/ e.x = "new view" /\ open(dis.heap, e.reference).buffer = reference
\* the expressions that stand for the buffer at reference
StandsFor(e, reference) ==
  e.x \in {"new ArrayBuffer", "buffer of new", "buffer of"} /\ e.reference = reference

\* the dependant views of a buffer that start at 0 and cover it
WholeViews(reference) ==
  {view \in dis.deps[reference].dependants :
     /\ open(dis.heap, view).t = "ArrayBufferView"
     /\ open(dis.heap, view).byte_offset = 0
     /\ open(dis.heap, view).length * byte_width(open(dis.heap, view).kind)
          = Len(open(dis.heap, reference).data)}
\* the buffers whose binding is redirected to a view
RedirectedBuffers ==
  {reference \in DOMAIN dis.deps :
     /\ open(dis.heap, reference).t = "ArrayBuffer"
     /\ ~open(dis.heap, reference).max_byte_length.some
     /\ ~inlineable(dis.deps[reference])
     /\ WholeViews(reference) # {}}
\* the data of the buffer, as the argument of the view's constructor
DataInline(e, view, buffer) ==
  /\ e.x = "new view" /\ e.reference = view /\ e.kind = open(dis.heap, view).kind
  /\ IF open(dis.heap, buffer).data = <<>> THEN e.of = Nothing
     ELSE IF AllZero(open(dis.heap, buffer).data) THEN e.of.x = "length"
     ELSE /\ e.of.x = "array"
          /\ Flatten(e.of.elements) = open(dis.heap, buffer).data
\* the loop over order has passed the place of reference without a panic
Passed(reference) ==
  dis.pc \in {"order", "done"} /\ dis.panic = "" /\ dis.i >= PlaceInOrder(reference)
ConstsOf(reference) ==
  {k \in 1..Len(dis.out) : dis.out[k].op = "const" /\ dis.out[k].reference = reference}

RECURSIVE FirstAlignedKind(_, _)
FirstAlignedKind(reference, k) ==
  IF k > Len(dis.order) THEN "Uint8Array"
  ELSE LET view == open(dis.heap, dis.order[k])
       IN IF /\ view.t = "ArrayBufferView"
             /\ view.buffer = reference
             /\ view.byte_offset % byte_width(view.kind) = 0
          THEN view.kind
          ELSE FirstAlignedKind(reference, k + 1)
\* the buffers written on their own with their contents, and the kind used
ContentsAsKind(reference, kind) ==
  \/ \E p \in 1..Len(WrittenParts) :
       /\ WrittenParts[p].x = "buffer of new"
       /\ WrittenParts[p].reference = reference
       /\ WrittenParts[p].array.kind = kind
  \/ \E n \in 1..Len(dis.scheduled) :
       /\ dis.scheduled[n].task = "ArrayBufferSet"
       /\ dis.scheduled[n].target = reference
       /\ dis.scheduled[n].kind = kind

\* C29: when an ArrayBuffer is rendered on its own (no covering view to
\* redirect to), the view kind used to write its contents is the kind of the
\* first view in traversal order that is backed by this buffer and aligned,
\* and Uint8Array only when the buffer has no such dependant view.
ContentsInKindOfView ==
  \A reference \in DOMAIN dis.deps : \A k \in 1..Len(ViewKinds) :
    ContentsAsKind(reference, ViewKinds[k].kind) =>
      ViewKinds[k].kind = FirstAlignedKind(reference, 1)
\* the same of the buffers that no aligned view is backed by
ContentsInUint8 ==
  \A reference \in DOMAIN dis.deps : \A k \in 1..Len(ViewKinds) :
    ContentsAsKind(reference, ViewKinds[k].kind) =>
      ViewKinds[k].kind = "Uint8Array"

\* the views of the heap that read returned
ViewsReturned ==
  {i \in 1..Len(de.result.heap) : de.result.heap[i].t = "ArrayBufferView"}
\* the buffer of each view is a slot of the heap that holds an ArrayBuffer
ViewsOnArrayBuffers ==
  Succeeded =>
    \A i \in ViewsReturned :
      /\ de.result.heap[i].buffer < Len(de.result.heap)
      /\ open(de.result.heap, de.result.heap[i].buffer).t = "ArrayBuffer"
\* a view is backed by a resizable buffer or tracks its length only on a
\* buffer that has max_byte_length
FlagsOnResizable ==
  Succeeded =>
    \A i \in ViewsReturned :
      /\ de.result.heap[i].buffer < Len(de.result.heap)
      /\ open(de.result.heap, de.result.heap[i].buffer).t = "ArrayBuffer"
      /\ de.result.heap[i].is_backed_by_rab \/ de.result.heap[i].is_length_tracking
      => open(de.result.heap, de.result.heap[i].buffer).max_byte_length.some

\* C30: in every heap returned by read, the buffer reference of each
\* ArrayBufferView points to a slot holding an ArrayBuffer, and a view has
\* is_backed_by_rab or is_length_tracking set only if that buffer is
\* resizable (has max_byte_length); so the assertions that display makes on
\* the views of a non-resizable buffer hold for every parsed input.
ViewsOfReadHeap == ViewsOnArrayBuffers /\ FlagsOnResizable
=============================================================================
